---- MODULE Spec2Model ----
(***************************************************************************)
(* Contacts API: the Redis cache service (src/src/services/cache.py), the  *)
(* services and handlers that read through it and invalidate it, and the   *)
(* relational store behind them.                                           *)
(*                                                                         *)
(* Time is counted in ticks of 30 minutes: an entry written with a TTL of  *)
(* n ticks is gone after n Tick steps (Redis SETEX).                       *)
(***************************************************************************)
EXTENDS Integers, Sequences, FiniteSets, TLC

VARIABLES
    users,          \* store: table users, id -> row
    contacts,       \* store: table contacts, id -> row
    redis,          \* backend: key -> [val, ttl]; absent keys are not in the domain
    cache_enabled,  \* CacheService.cache_enabled (redis_client is set iff it is TRUE)
    shadow,         \* history: what the last applied cache write per key family was given
    last,           \* history: the last completed call and what it returned
    requests        \* user objects loaded by get_current_user for requests whose handler has not run yet

vars == <<users, contacts, redis, cache_enabled, shadow, last, requests>>

-----------------------------------------------------------------------------
(* Values *)

NoneStr == "<None>"                 \* Python None in an Optional[str] column
NoneObj == [py_none |-> TRUE]       \* Python None where a dict / list / object is expected
NoDate  == [y |-> 0, m |-> 0, d |-> 0]   \* Python None in a date column

APP_NAME == "Contacts API"

UserIds   == {1, 2}
Roles     == {"user", "moderator", "admin"}
Avatars   == {NoneStr, "http://img/a1"}

\* TTLs in ticks of 30 minutes
UserTtl     == 2
ContactsTtl == 1

\* outcome of one round trip to the backend: answered, failed before the
\* command was applied, or applied with the reply lost (socket timeout)
ReadOutcomes  == {"ok", "err"}
WriteOutcomes == {"ok", "err", "lost"}

\* the command reached the backend and took effect
Applied(f) == f # "err"

SnapshotFields == {"id", "username", "email", "full_name", "is_active",
                   "is_verified", "avatar_url", "hashed_password"}

-----------------------------------------------------------------------------
(* JSON: json.dumps / json.loads on the flat dicts the service builds.     *)
(* A JSON document is a function from member names to JSON values; a JSON  *)
(* value is null, a boolean, a number or a string.                         *)

UserFieldType ==
    [id |-> "int", username |-> "str", email |-> "str", full_name |-> "optstr",
     is_active |-> "bool", is_verified |-> "bool", avatar_url |-> "optstr",
     hashed_password |-> "str"]

ContactFieldType ==
    [id |-> "int", first_name |-> "str", last_name |-> "str", email |-> "str",
     phone |-> "str", birthday |-> "optstr", additional_info |-> "optstr",
     user_id |-> "int"]

ToJson(v, type) ==
    CASE type = "int"    -> [t |-> "num", v |-> v]
      [] type = "bool"   -> [t |-> "bool", v |-> v]
      [] type = "str"    -> [t |-> "str", v |-> v]
      [] type = "optstr" -> IF v = NoneStr THEN [t |-> "null"]
                            ELSE [t |-> "str", v |-> v]

FromJson(j) == IF j.t = "null" THEN NoneStr ELSE j.v

\* the text of one JSON object / of a JSON array of objects
JsonDumps(d, types) == [obj |-> [k \in DOMAIN d |-> ToJson(d[k], types[k])]]
JsonDumpsList(ds, types) ==
    [arr |-> [i \in 1..Len(ds) |-> [k \in DOMAIN ds[i] |-> ToJson(ds[i][k], types[k])]]]

\* a stored value that is not the text of any JSON document, and the test
\* json.loads makes before it returns anything
Malformed    == [raw |-> "{"]
IsJson(text) == "raw" \notin DOMAIN text

JsonLoads(text)     == [k \in DOMAIN text.obj |-> FromJson(text.obj[k])]
JsonLoadsList(text) ==
    [i \in 1..Len(text.arr) |-> [k \in DOMAIN text.arr[i] |-> FromJson(text.arr[i][k])]]

-----------------------------------------------------------------------------
(* Dates: date.isoformat() and datetime.fromisoformat(s).date()            *)

Digit(n) == <<"0", "1", "2", "3", "4", "5", "6", "7", "8", "9">>[n + 1]
Pad2(n)  == Digit(n \div 10) \o Digit(n % 10)

\* (mutant) month and day written without the leading zero
IsoFormat_unpadded(date) ==
    Pad2(date.y \div 100) \o Pad2(date.y % 100)
        \o "-" \o (IF date.m < 10 THEN Digit(date.m) ELSE Pad2(date.m))
        \o "-" \o (IF date.d < 10 THEN Digit(date.d) ELSE Pad2(date.d))

IsoFormat(date) ==
    Pad2(date.y \div 100) \o Pad2(date.y % 100)
        \o "-" \o Pad2(date.m) \o "-" \o Pad2(date.d)

\* YYYY-MM-DD
IsIsoDate(s) ==
    /\ Len(s) = 10
    /\ SubSeq(s, 5, 5) = "-"
    /\ SubSeq(s, 8, 8) = "-"
    /\ \A i \in {1, 2, 3, 4, 6, 7, 9, 10} :
           \E n \in 0..9 : Digit(n) = SubSeq(s, i, i)

FromIsoFormat(s) ==
    LET DigitVal(i) == CHOOSE n \in 0..9 : Digit(n) = SubSeq(s, i, i)
        Num2(i)     == 10 * DigitVal(i) + DigitVal(i + 1)
    IN  [y |-> 100 * Num2(1) + Num2(3), m |-> Num2(6), d |-> Num2(9)]

-----------------------------------------------------------------------------
(* CacheService: keys and serializers *)

_generate_key(prefix, identifier) == APP_NAME \o ":" \o prefix \o ":" \o identifier

_serialize_user(user) ==
    [id |-> user.id, username |-> user.username, email |-> user.email,
     full_name |-> user.full_name, is_active |-> user.is_active,
     is_verified |-> user.is_verified, avatar_url |-> user.avatar_url,
     hashed_password |-> user.hashed_password]

_deserialize_user(data) == data

_serialize_contact(contact) ==
    [id |-> contact.id, first_name |-> contact.first_name,
     last_name |-> contact.last_name, email |-> contact.email,
     phone |-> contact.phone,
     birthday |-> IF contact.birthday # NoDate THEN IsoFormat(contact.birthday)
                  ELSE NoneStr,
     additional_info |-> contact.additional_info, user_id |-> contact.user_id]

-----------------------------------------------------------------------------
(* The backend: Redis commands on the key space *)

RedisGet(r, key) == IF key \in DOMAIN r THEN r[key].val ELSE NoneObj

RedisSetex(r, key, ttl, val) ==
    [k \in DOMAIN r \cup {key} |->
        IF k = key THEN [val |-> val, ttl |-> ttl] ELSE r[k]]

RedisDelete(r, keys) == [k \in DOMAIN r \ keys |-> r[k]]

\* (mutant) the queued commands sent one by one, the connection lost after
\* the first
PipelineExecute_partial(r, keys, ttl, val) ==
    LET first == CHOOSE k \in keys : TRUE
    IN  [k \in DOMAIN r \cup {first} |->
            IF k = first THEN [val |-> val, ttl |-> ttl] ELSE r[k]]

\* pipeline() is transactional by default: execute() sends the queued
\* commands as one MULTI/EXEC block, applied together
PipelineExecute(r, keys, ttl, val) ==
    [k \in DOMAIN r \cup keys |->
        IF k \in keys THEN [val |-> val, ttl |-> ttl] ELSE r[k]]

\* one tick of time: every entry is 30 minutes older
RedisAge(r) ==
    [k \in {q \in DOMAIN r : r[q].ttl > 1} |-> [r[k] EXCEPT !.ttl = @ - 1]]

-----------------------------------------------------------------------------
(* CacheService: users.  Every operation takes the service's enabled flag, *)
(* the key space and the outcome f of its round trip to the backend, and   *)
(* yields the new key space r and the value ret it returns.                *)

UserKeys(user) ==
    {_generate_key("user_id", ToString(user.id)),
     _generate_key("user_username", user.username),
     _generate_key("user_email", user.email)}

set_user_cache(enabled, r, user, f) ==
    IF ~enabled THEN [r |-> r, ret |-> FALSE]
    ELSE IF f = "err" THEN [r |-> r, ret |-> FALSE]
    ELSE LET user_json == JsonDumps(_serialize_user(user), UserFieldType)
             applied   == PipelineExecute(r, UserKeys(user), UserTtl, user_json)
         IN  [r |-> applied, ret |-> (f = "ok")]

\* (mutant) json.loads outside the try block: the decode error of a
\* malformed value reaches the caller
get_user_unguarded(enabled, r, key, f) ==
    IF ~enabled THEN [r |-> r, ret |-> NoneObj]
    ELSE IF f = "err" THEN [r |-> r, ret |-> NoneObj]
    ELSE LET cached_data == RedisGet(r, key)
         IN  IF cached_data # NoneObj
             THEN IF ~IsJson(cached_data)
                  THEN [r |-> r, ret |-> [exc |-> "JSONDecodeError"]]
                  ELSE [r |-> r, ret |-> _deserialize_user(JsonLoads(cached_data))]
             ELSE [r |-> r, ret |-> NoneObj]

\* json.loads of a malformed value raises inside the try block, and the
\* except branch falls through to return None
get_user(enabled, r, key, f) ==
    IF ~enabled THEN [r |-> r, ret |-> NoneObj]
    ELSE IF f = "err" THEN [r |-> r, ret |-> NoneObj]
    ELSE LET cached_data == RedisGet(r, key)
         IN  IF cached_data # NoneObj
             THEN IF ~IsJson(cached_data)
                  THEN [r |-> r, ret |-> NoneObj]
                  ELSE [r |-> r, ret |-> _deserialize_user(JsonLoads(cached_data))]
             ELSE [r |-> r, ret |-> NoneObj]

get_user_by_id(enabled, r, user_id, f) ==
    get_user(enabled, r, _generate_key("user_id", ToString(user_id)), f)

get_user_by_username(enabled, r, username, f) ==
    get_user(enabled, r, _generate_key("user_username", username), f)

get_user_by_email(enabled, r, email, f) ==
    get_user(enabled, r, _generate_key("user_email", email), f)

\* (mutant) only the id key is deleted
invalidate_user_cache_id_only(enabled, r, user, f) ==
    IF ~enabled THEN [r |-> r, ret |-> FALSE]
    ELSE IF f = "err" THEN [r |-> r, ret |-> FALSE]
    ELSE [r |-> RedisDelete(r, {_generate_key("user_id", ToString(user.id))}),
          ret |-> (f = "ok")]

invalidate_user_cache(enabled, r, user, f) ==
    IF ~enabled THEN [r |-> r, ret |-> FALSE]
    ELSE IF f = "err" THEN [r |-> r, ret |-> FALSE]
    ELSE [r |-> RedisDelete(r, UserKeys(user)), ret |-> (f = "ok")]

-----------------------------------------------------------------------------
(* CacheService: contact lists *)

ContactsKey(user_id) == _generate_key("user_contacts", ToString(user_id))

set_contacts_cache(enabled, r, user_id, contact_list, f) ==
    IF ~enabled THEN [r |-> r, ret |-> FALSE]
    ELSE IF f = "err" THEN [r |-> r, ret |-> FALSE]
    ELSE LET contacts_data ==
                 [i \in 1..Len(contact_list) |-> _serialize_contact(contact_list[i])]
             contacts_json == JsonDumpsList(contacts_data, ContactFieldType)
         IN  [r |-> RedisSetex(r, ContactsKey(user_id), ContactsTtl, contacts_json),
              ret |-> (f = "ok")]

get_contacts_cache(enabled, r, user_id, f) ==
    IF ~enabled THEN [r |-> r, ret |-> NoneObj]
    ELSE IF f = "err" THEN [r |-> r, ret |-> NoneObj]
    ELSE LET cached_data == RedisGet(r, ContactsKey(user_id))
         IN  IF cached_data # NoneObj
             THEN IF ~IsJson(cached_data)
                  THEN [r |-> r, ret |-> NoneObj]
                  ELSE [r |-> r, ret |-> [list |-> JsonLoadsList(cached_data)]]
             ELSE [r |-> r, ret |-> NoneObj]

\* (mutant) the key to delete is built with another prefix than the one the
\* list is stored under
invalidate_contacts_cache_wrong_prefix(enabled, r, user_id, f) ==
    IF ~enabled THEN [r |-> r, ret |-> FALSE]
    ELSE IF f = "err" THEN [r |-> r, ret |-> FALSE]
    ELSE [r |-> RedisDelete(r, {_generate_key("contacts", ToString(user_id))}),
          ret |-> (f = "ok" /\ ContactsKey(user_id) \in DOMAIN r)]

invalidate_contacts_cache(enabled, r, user_id, f) ==
    IF ~enabled THEN [r |-> r, ret |-> FALSE]
    ELSE IF f = "err" THEN [r |-> r, ret |-> FALSE]
    ELSE [r |-> RedisDelete(r, {ContactsKey(user_id)}),
          ret |-> (f = "ok" /\ ContactsKey(user_id) \in DOMAIN r)]

\* (mutant) the whole key space is flushed
clear_user_all_cache_flushdb(enabled, r, user_id, f1, f2, f3) ==
    [r |-> IF enabled /\ f1 # "err" THEN [k \in {} |-> NoneObj] ELSE r, ret |-> TRUE]

\* clear_user_all_cache: the three round trips are f1 (get by id), f2 (delete
\* of the identity keys, made only on a hit) and f3 (delete of the list)
clear_user_all_cache(enabled, r, user_id, f1, f2, f3) ==
    LET user_data == get_user_by_id(enabled, r, user_id, f1).ret
        r1 == IF user_data # NoneObj
              THEN invalidate_user_cache(enabled, r, user_data, f2).r
              ELSE r
        r2 == invalidate_contacts_cache(enabled, r1, user_id, f3).r
    IN  [r |-> r2, ret |-> TRUE]

-----------------------------------------------------------------------------
(* CacheService: role, reset-attempt and audit operations.  Their callers  *)
(* are in src/ (services/auth.py, services/admin.py, api/auth.py), their    *)
(* definitions are not in services/cache.py: they follow the design text    *)
(* (sections 4.4 to 4.6 and 7), with the conventions of the methods above.  *)

MaxAttempts    == 3   \* max_attempts=3 in forgot_password
RoleTtl        == 1   \* about 15 minutes: gone at the next tick
ResetWindowTtl == 2   \* one hour
AuditTtl       == 1
MaxAudit       == 1   \* audit records kept at a time

RoleKey(user_id)     == _generate_key("user_role", ToString(user_id))
AttemptsKey(email)   == _generate_key("reset_attempts", email)
ResetTokenKey(token) == _generate_key("reset_token", token)
AuditKey(n)          == _generate_key("admin_action", ToString(n))
AuditKeys(r)         == {AuditKey(n) : n \in 1..MaxAudit} \cap DOMAIN r

\* user < moderator < admin; an unknown role is below all of them
role_hierarchy(role) ==
    CASE role = "user" -> 1 [] role = "moderator" -> 2 [] role = "admin" -> 3
      [] OTHER -> 0

cache_user_role(enabled, r, user_id, role, f) ==
    IF ~enabled THEN [r |-> r, ret |-> FALSE]
    ELSE IF f = "err" THEN [r |-> r, ret |-> FALSE]
    ELSE [r |-> RedisSetex(r, RoleKey(user_id), RoleTtl, [str |-> role]),
          ret |-> (f = "ok")]

\* the cached role, or NoneStr on a miss
get_user_role_cache(enabled, r, user_id, f) ==
    IF ~enabled THEN [r |-> r, ret |-> NoneStr]
    ELSE IF f = "err" THEN [r |-> r, ret |-> NoneStr]
    ELSE LET cached_data == RedisGet(r, RoleKey(user_id))
         IN  [r |-> r, ret |-> IF cached_data # NoneObj THEN cached_data.str
                               ELSE NoneStr]

invalidate_user_role_cache(enabled, r, user_id, f) ==
    IF ~enabled THEN [r |-> r, ret |-> FALSE]
    ELSE IF f = "err" THEN [r |-> r, ret |-> FALSE]
    ELSE [r |-> RedisDelete(r, {RoleKey(user_id)}), ret |-> (f = "ok")]

\* known is false on a miss (None); otherwise allowed is the comparison of
\* the cached role with the required one
check_role_permission(enabled, r, user_id, required_role, f) ==
    LET cached_role == get_user_role_cache(enabled, r, user_id, f).ret
    IN  IF cached_role = NoneStr
        THEN [r |-> r, ret |-> [known |-> FALSE, allowed |-> FALSE]]
        ELSE [r |-> r,
              ret |-> [known |-> TRUE,
                       allowed |-> role_hierarchy(cached_role)
                                       >= role_hierarchy(required_role)]]

\* INCR of the counter, which gets its TTL when it is created; the counter is
\* bounded: it stops at max_attempts + 1.  Fails open: a disabled or failing
\* backend lets the request through
check_reset_attempts(enabled, r, email, max_attempts, f) ==
    IF ~enabled THEN [r |-> r, ret |-> TRUE]
    ELSE IF f = "err" THEN [r |-> r, ret |-> TRUE]
    ELSE LET key == AttemptsKey(email)
             n   == IF key \in DOMAIN r
                    THEN IF r[key].val.num > max_attempts THEN r[key].val.num
                         ELSE r[key].val.num + 1
                    ELSE 1
         IN  [r |-> IF key \in DOMAIN r THEN [r EXCEPT ![key].val = [num |-> n]]
                    ELSE RedisSetex(r, key, ResetWindowTtl, [num |-> n]),
              ret |-> (f = "lost" \/ n <= max_attempts)]

set_reset_token_cache(enabled, r, email, token, f) ==
    IF ~enabled THEN [r |-> r, ret |-> FALSE]
    ELSE IF f = "err" THEN [r |-> r, ret |-> FALSE]
    ELSE [r |-> RedisSetex(r, ResetTokenKey(token), ResetWindowTtl, [str |-> email]),
          ret |-> (f = "ok")]

\* the token entry and the attempt counter go in one DEL
invalidate_reset_token(enabled, r, token, email, f) ==
    IF ~enabled THEN [r |-> r, ret |-> FALSE]
    ELSE IF f = "err" THEN [r |-> r, ret |-> FALSE]
    ELSE [r |-> RedisDelete(r, {ResetTokenKey(token), AttemptsKey(email)}),
          ret |-> (f = "ok")]

\* the keys under the audit namespace (SCAN admin_action:*); key 0 is that of
\* a record left by an earlier run of the service
AuditScan(r) == {AuditKey(n) : n \in 0..MaxAudit} \cap DOMAIN r

\* appends a record under a key of its own; reports the outcome, never
\* raises.  No more than MaxAudit records are kept: a further one is refused
\* by the backend.  The timestamp is the clock reading, kept as its rank
\* among the records in the key space: later than every one of them
cache_admin_action(enabled, r, admin_id, action, target_user_id, f) ==
    IF ~enabled THEN [r |-> r, ret |-> FALSE]
    ELSE IF f = "err" \/ Cardinality(AuditKeys(r)) >= MaxAudit
    THEN [r |-> r, ret |-> FALSE]
    ELSE LET n  == CHOOSE i \in 1..MaxAudit :
                       /\ AuditKey(i) \notin DOMAIN r
                       /\ \A j \in 1..(i - 1) : AuditKey(j) \in DOMAIN r
             latest == IF AuditScan(r) = {} THEN 0
                       ELSE CHOOSE t \in {r[k].val.audit.timestamp : k \in AuditScan(r)} :
                                \A k \in AuditScan(r) : r[k].val.audit.timestamp <= t
         IN  [r |-> RedisSetex(r, AuditKey(n), AuditTtl,
                               [audit |-> [admin_id |-> admin_id, action |-> action,
                                           target_user_id |-> target_user_id,
                                           timestamp |-> latest + 1]]),
              ret |-> (f = "ok")]

\* the records of a sequence-free set, newest first
RECURSIVE NewestFirst(_)
NewestFirst(records) ==
    IF records = {} THEN <<>>
    ELSE LET newest == CHOOSE a \in records :
                           \A b \in records : b.timestamp <= a.timestamp
         IN  <<newest>> \o NewestFirst(records \ {newest})

\* scans the audit namespace and returns at most limit records, newest
\* first; an empty list when the backend is disabled or the scan fails
get_recent_admin_actions(enabled, r, limit, f) ==
    IF ~enabled THEN [r |-> r, ret |-> <<>>]
    ELSE IF f = "err" THEN [r |-> r, ret |-> <<>>]
    ELSE LET actions == NewestFirst({r[k].val.audit : k \in AuditScan(r)})
         IN  [r |-> r,
              ret |-> SubSeq(actions, 1, IF limit < Len(actions) THEN limit
                                         ELSE Len(actions))]

-----------------------------------------------------------------------------
(* The store at start: two registered users and alice's two contacts *)

\* reset_expires: ticks left before reset_token_expires is in the past
UserRow(id, username, email, role) ==
    [id |-> id, username |-> username, email |-> email, hashed_password |-> "h0",
     full_name |-> NoneStr, is_active |-> TRUE, is_verified |-> TRUE,
     avatar_url |-> NoneStr, reset_token |-> NoneStr, reset_expires |-> 0,
     role |-> role]

ContactRow(id, user_id, email, birthday, info) ==
    [id |-> id, first_name |-> "Ann", last_name |-> "Lee", email |-> email,
     phone |-> "555", birthday |-> birthday, additional_info |-> info,
     user_id |-> user_id]

InitUsers ==
    (1 :> UserRow(1, "alice", "a@x.com", "admin")) @@
    (2 :> UserRow(2, "bob", "b@x.com", "user"))

InitContacts ==
    (1 :> ContactRow(1, 1, "c1@x.com", [y |-> 1990, m |-> 1, d |-> 9], NoneStr)) @@
    (2 :> ContactRow(2, 1, "c2@x.com", [y |-> 2001, m |-> 12, d |-> 31], "note"))

ContactIds    == {1, 2}
ContactEmails == {"c1@x.com", "c2@x.com"}
\* the fields a ContactUpdate sets
Updates == {[additional_info |-> ""], [email |-> "c2@x.com"]}
Skips  == {0, 1}
Limits == {1, 100}

EmptyRedis == [k \in {} |-> NoneObj]

\* user / contacts: the object or list given to the last applied set per user;
\* dirty: the user's contacts changed in the store since that set;
\* lostdel: the delete of an invalidation since that set failed on the backend
ResetEmails == {"a@x.com", "nobody@x.com"}
Tokens      == {"t1"}

InitShadow ==
    [user |-> [u \in UserIds |-> NoneObj], contacts |-> [u \in UserIds |-> NoneObj],
     dirty |-> [u \in UserIds |-> FALSE], lostdel |-> [u \in UserIds |-> FALSE],
     role |-> [u \in UserIds |-> "none"],
     attempts |-> [e \in ResetEmails |-> [n |-> 0, age |-> 0]]]

\* the history is kept only for entries still in the key space
Prune(sh, r) ==
    [user     |-> [u \in UserIds |->
                      IF _generate_key("user_id", ToString(u)) \in DOMAIN r
                      THEN sh.user[u] ELSE NoneObj],
     contacts |-> [u \in UserIds |->
                      IF ContactsKey(u) \in DOMAIN r
                      THEN sh.contacts[u] ELSE NoneObj],
     dirty    |-> [u \in UserIds |->
                      ContactsKey(u) \in DOMAIN r
                      /\ sh.dirty[u]],
     lostdel  |-> [u \in UserIds |->
                      ContactsKey(u) \in DOMAIN r
                      /\ sh.lostdel[u]],
     role     |-> sh.role,
     attempts |-> sh.attempts]

ListSet(sh, u, list) ==
    [sh EXCEPT !.contacts[u] = [list |-> list], !.dirty[u] = FALSE,
               !.lostdel[u] = FALSE]

Mutated(sh, u, enabled, f) ==
    [sh EXCEPT !.dirty[u] = TRUE,
               !.lostdel[u] = @ \/ (enabled /\ ~Applied(f))]

\* f is the outcome of the call's (first) round trip to the backend
Done(op, arg, ok, val, f) == [op |-> op, arg |-> arg, ok |-> ok, val |-> val, f |-> f]

\* CacheService.__init__: the flag follows the setting, and is cleared when
\* the first ping fails
Init ==
    /\ users = InitUsers
    /\ contacts = InitContacts
    /\ redis = EmptyRedis
    /\ cache_enabled \in BOOLEAN
    /\ shadow = InitShadow
    /\ last = Done("init", 0, TRUE, NoneObj, "ok")
    /\ requests = {}

\* rows of the store in id order
RECURSIVE SortedIds(_)
SortedIds(ids) ==
    IF ids = {} THEN <<>>
    ELSE LET m == CHOOSE i \in ids : \A j \in ids : i <= j
         IN  <<m>> \o SortedIds(ids \ {m})

ContactsOf(cs, user_id) ==
    LET ids == SortedIds({c \in DOMAIN cs : cs[c].user_id = user_id})
    IN  [i \in 1..Len(ids) |-> cs[ids[i]]]

-----------------------------------------------------------------------------
(* Direct calls of the cache service *)

\* a user object some caller holds: a row as read from the store, with the
\* activation status it had at the time
CallerUsers == {[users[u] EXCEPT !.is_active = a] : u \in DOMAIN users, a \in BOOLEAN}

CallSetUserCache ==
    \E user \in CallerUsers, f \in WriteOutcomes :
        LET c == set_user_cache(cache_enabled, redis, user, f) IN
        /\ redis' = c.r
        /\ shadow' = Prune(IF cache_enabled /\ Applied(f)
                           THEN [shadow EXCEPT !.user[user.id] = user] ELSE shadow, redis')
        /\ last' = Done("set_user_cache", user.id, c.ret, user, f)
        /\ UNCHANGED <<users, contacts, cache_enabled, requests>>

CallGetUserById ==
    \E u \in UserIds, f \in ReadOutcomes :
        LET c == get_user_by_id(cache_enabled, redis, u, f) IN
        /\ redis' = c.r
        /\ last' = Done("get_user_by_id", u, c.ret # NoneObj, c.ret, f)
        /\ shadow' = Prune(shadow, redis')
        /\ UNCHANGED <<users, contacts, cache_enabled, requests>>

CallGetUserByUsername ==
    \E u \in DOMAIN users, f \in ReadOutcomes :
        LET c == get_user_by_username(cache_enabled, redis, users[u].username, f) IN
        /\ redis' = c.r
        /\ last' = Done("get_user_by_username", u, c.ret # NoneObj, c.ret, f)
        /\ shadow' = Prune(shadow, redis')
        /\ UNCHANGED <<users, contacts, cache_enabled, requests>>

CallGetUserByEmail ==
    \E u \in DOMAIN users, f \in ReadOutcomes :
        LET c == get_user_by_email(cache_enabled, redis, users[u].email, f) IN
        /\ redis' = c.r
        /\ last' = Done("get_user_by_email", u, c.ret # NoneObj, c.ret, f)
        /\ shadow' = Prune(shadow, redis')
        /\ UNCHANGED <<users, contacts, cache_enabled, requests>>

CallInvalidateUserCache ==
    \E user \in CallerUsers, f \in WriteOutcomes :
        LET c == invalidate_user_cache(cache_enabled, redis, user, f) IN
        /\ redis' = c.r
        /\ last' = Done("invalidate_user_cache", user.id, c.ret, user, f)
        /\ shadow' = Prune(shadow, redis')
        /\ UNCHANGED <<users, contacts, cache_enabled, requests>>

CallSetContactsCache ==
    \E u \in UserIds, f \in WriteOutcomes :
        LET list == ContactsOf(contacts, u)
            c == set_contacts_cache(cache_enabled, redis, u, list, f) IN
        /\ redis' = c.r
        /\ shadow' = Prune(IF cache_enabled /\ Applied(f)
                           THEN ListSet(shadow, u, list) ELSE shadow, redis')
        /\ last' = Done("set_contacts_cache", u, c.ret, NoneObj, "ok")
        /\ UNCHANGED <<users, contacts, cache_enabled, requests>>

CallGetContactsCache ==
    \E u \in UserIds, f \in ReadOutcomes :
        LET c == get_contacts_cache(cache_enabled, redis, u, f) IN
        /\ redis' = c.r
        /\ last' = Done("get_contacts_cache", u, c.ret # NoneObj, NoneObj, "ok")
        /\ shadow' = Prune(shadow, redis')
        /\ UNCHANGED <<users, contacts, cache_enabled, requests>>

CallInvalidateContactsCache ==
    \E u \in UserIds, f \in WriteOutcomes :
        LET c == invalidate_contacts_cache(cache_enabled, redis, u, f) IN
        /\ redis' = c.r
        /\ last' = Done("invalidate_contacts_cache", u, c.ret, NoneObj, "ok")
        /\ shadow' = Prune(shadow, redis')
        /\ UNCHANGED <<users, contacts, cache_enabled, requests>>

\* DELETE /cache/clear and the delete paths call it with a user id
CallClearUserAllCache ==
    \E u \in UserIds, f1 \in ReadOutcomes, f2 \in WriteOutcomes, f3 \in WriteOutcomes :
        LET c == clear_user_all_cache(cache_enabled, redis, u, f1, f2, f3) IN
        /\ redis' = c.r
        /\ last' = Done("clear_user_all_cache", u, c.ret,
                        [healthy |-> (f1 = "ok" /\ f2 = "ok" /\ f3 = "ok"),
                         failed  |-> (f1 = "err" /\ f3 = "err")], f1)
        /\ shadow' = Prune(shadow, redis')
        /\ UNCHANGED <<users, contacts, cache_enabled, requests>>

\* reset_token_expires comes 30 minutes closer
AgeUsers(us) ==
    [u \in DOMAIN us |->
        [us[u] EXCEPT !.reset_expires = IF @ > 0 THEN @ - 1 ELSE 0]]

\* the window of an email opens with its first counted request and lasts
\* ResetWindowTtl ticks
AgeAttempts(a) ==
    [e \in DOMAIN a |->
        IF a[e].n = 0 THEN a[e]
        ELSE IF a[e].age + 1 >= ResetWindowTtl
        THEN [n |-> 0, age |-> 0]
        ELSE [a[e] EXCEPT !.age = @ + 1]]

\* 30 minutes pass
Tick ==
    /\ \/ DOMAIN redis # {}
       \/ \E u \in DOMAIN users : users[u].reset_expires > 0
    /\ redis' = RedisAge(redis)
    /\ users' = AgeUsers(users)
    /\ last' = Done("tick", 0, TRUE, NoneObj, "ok")
    /\ shadow' = [Prune(shadow, redis') EXCEPT !.attempts = AgeAttempts(@)]
    /\ UNCHANGED <<contacts, cache_enabled, requests>>

NextCache ==
    \/ CallSetUserCache
    \/ CallGetUserById
    \/ CallGetUserByUsername
    \/ CallGetUserByEmail
    \/ CallInvalidateUserCache
    \/ CallClearUserAllCache
    \/ Tick

SpecCache == Init /\ [][NextCache]_vars

-----------------------------------------------------------------------------
(* UserRepository *)

repo_get_user_by_id(us, user_id) ==
    IF user_id \in DOMAIN us THEN us[user_id] ELSE NoneObj

repo_get_user_by_username(us, username) ==
    IF \E u \in DOMAIN us : us[u].username = username
    THEN us[CHOOSE u \in DOMAIN us : us[u].username = username]
    ELSE NoneObj

repo_get_user_by_email(us, email) ==
    IF \E u \in DOMAIN us : us[u].email = email
    THEN us[CHOOSE u \in DOMAIN us : us[u].email = email]
    ELSE NoneObj

\* setattr of every keyword argument, then commit
SetAttrs(row, kwargs) ==
    [k \in DOMAIN row |-> IF k \in DOMAIN kwargs THEN kwargs[k] ELSE row[k]]

\* the unique indexes on users.username and users.email
UniqueViolation(us, user_id, kwargs) ==
    \E o \in DOMAIN us \ {user_id} :
        \/ "username" \in DOMAIN kwargs /\ us[o].username = kwargs.username
        \/ "email" \in DOMAIN kwargs /\ us[o].email = kwargs.email

repo_update_user(us, user_id, kwargs) ==
    [us EXCEPT ![user_id] = SetAttrs(us[user_id], kwargs)]

-----------------------------------------------------------------------------
(* UserService.  f1 is the round trip of the cache lookup, f2 that of the  *)
(* set_user_cache after a miss.                                            *)

\* User() filled by setattr from the cached dict; the other columns keep
\* their unset value
RebuildUser(cached_data) ==
    [k \in DOMAIN InitUsers[1] |->
        IF k \in DOMAIN cached_data THEN cached_data[k]
        ELSE IF k = "reset_expires" THEN 0 ELSE NoneStr]

ReadThrough(enabled, r, cached_data, user, f2) ==
    IF cached_data # NoneObj
    THEN [r |-> r, ret |-> RebuildUser(cached_data), populated |-> FALSE, hit |-> TRUE]
    ELSE IF user # NoneObj
    THEN [r |-> set_user_cache(enabled, r, user, f2).r, ret |-> user,
          populated |-> enabled /\ Applied(f2), hit |-> FALSE]
    ELSE [r |-> r, ret |-> NoneObj, populated |-> FALSE, hit |-> FALSE]

\* (mutant) a miss is answered without asking the store
UserService_get_user_by_id_cache_only(enabled, r, us, user_id, f1, f2) ==
    LET cached_data == get_user_by_id(enabled, r, user_id, f1).ret
    IN  IF cached_data # NoneObj
        THEN [r |-> r, ret |-> RebuildUser(cached_data), populated |-> FALSE, hit |-> TRUE]
        ELSE [r |-> r, ret |-> NoneObj, populated |-> FALSE, hit |-> FALSE]

UserService_get_user_by_id(enabled, r, us, user_id, f1, f2) ==
    ReadThrough(enabled, r, get_user_by_id(enabled, r, user_id, f1).ret,
                repo_get_user_by_id(us, user_id), f2)

UserService_get_user_by_username(enabled, r, us, username, f1, f2) ==
    ReadThrough(enabled, r, get_user_by_username(enabled, r, username, f1).ret,
                repo_get_user_by_username(us, username), f2)

UserService_get_user_by_email(enabled, r, us, email, f1, f2) ==
    ReadThrough(enabled, r, get_user_by_email(enabled, r, email, f1).ret,
                repo_get_user_by_email(us, email), f2)

-----------------------------------------------------------------------------
(* ContactRepository *)

get_contact_by_id(cs, contact_id) ==
    IF contact_id \in DOMAIN cs THEN cs[contact_id] ELSE NoneObj

\* (mutant) the filter on the owner compares with the contact id, so a
\* contact of the user is not found by its email
get_contact_by_email_wrong_column(cs, email, user_id) ==
    LET found == {c \in DOMAIN cs : cs[c].email = email /\ cs[c].id = user_id}
    IN  IF found = {} THEN NoneObj
        ELSE cs[CHOOSE c \in found : \A d \in found : c <= d]

get_contact_by_email(cs, email, user_id) ==
    LET found == {c \in DOMAIN cs : cs[c].email = email /\ cs[c].user_id = user_id}
    IN  IF found = {} THEN NoneObj
        ELSE cs[CHOOSE c \in found : \A d \in found : c <= d]

\* .offset(skip).limit(limit)
Page(list, skip, limit) ==
    IF skip >= Len(list) THEN <<>>
    ELSE SubSeq(list, skip + 1,
                IF skip + limit < Len(list) THEN skip + limit ELSE Len(list))

get_contacts_by_user(cs, user_id, skip, limit) ==
    Page(ContactsOf(cs, user_id), skip, limit)

\* setattr of the fields that were set in the ContactUpdate
repo_update_contact(cs, contact_id, update_data) ==
    [cs EXCEPT ![contact_id] =
        [k \in DOMAIN cs[contact_id] |->
            IF k \in DOMAIN update_data THEN update_data[k] ELSE cs[contact_id][k]]]

repo_delete_contact(cs, contact_id) == [c \in DOMAIN cs \ {contact_id} |-> cs[c]]

-----------------------------------------------------------------------------
(* ContactService.  Each handler yields the new store cs, the new key      *)
(* space r, what it returns (ret) and the exception it raises (exc, "" for *)
(* none); wrote says whether the store was changed.                        *)

Truthy(s) == s # NoneStr /\ s # ""

\* Contact() filled by setattr from one cached dict
RebuildContact(contact_data) ==
    [k \in DOMAIN contact_data |->
        IF k = "birthday"
        THEN IF Truthy(contact_data[k]) THEN FromIsoFormat(contact_data[k]) ELSE NoDate
        ELSE contact_data[k]]

Unparsable(cached) ==
    \E i \in 1..Len(cached) :
        Truthy(cached[i].birthday) /\ ~IsIsoDate(cached[i].birthday)

ContactService_get_contacts(enabled, r, cs, user_id, skip, limit, f1, f2) ==
    LET cached == IF skip = 0 /\ limit >= 100
                  THEN get_contacts_cache(enabled, r, user_id, f1).ret
                  ELSE NoneObj
        hit    == cached # NoneObj /\ Len(cached.list) > 0
        rows   == get_contacts_by_user(cs, user_id, skip, limit)
        stored == IF skip = 0 /\ Len(rows) > 0
                  THEN set_contacts_cache(enabled, r, user_id, rows, f2)
                  ELSE [r |-> r, ret |-> FALSE]
    IN  IF hit
        THEN IF Unparsable(cached.list)
             THEN [r |-> r, ret |-> <<>>, exc |-> "ValueError", populated |-> FALSE,
                   hit |-> TRUE]
             ELSE LET rebuilt == [i \in 1..Len(cached.list) |->
                                     RebuildContact(cached.list[i])]
                  IN  [r |-> r,
                       ret |-> IF limit < Len(rebuilt)
                               THEN SubSeq(rebuilt, skip + 1, skip + limit)
                               ELSE SubSeq(rebuilt, skip + 1, Len(rebuilt)),
                       exc |-> "", populated |-> FALSE, hit |-> TRUE]
        ELSE [r |-> stored.r, ret |-> rows, exc |-> "", hit |-> FALSE,
              populated |-> (skip = 0 /\ Len(rows) > 0 /\ enabled /\ Applied(f2))]

\* ContactService.get_contact(self, contact_id): a call with any other
\* keyword argument does not bind and raises TypeError
ContactService_get_contact(cs, contact_id, kwargs) ==
    IF kwargs # {} THEN [ret |-> NoneObj, exc |-> "TypeError"]
    ELSE [ret |-> get_contact_by_id(cs, contact_id), exc |-> ""]

\* GET /contacts/{contact_id}: service.get_contact(contact_id,
\* user_id=current_user.id), then 404 when nothing came back
get_contact(cs, contact_id, current_user) ==
    LET contact == ContactService_get_contact(cs, contact_id, {"user_id"})
    IN  IF contact.exc # "" THEN [ret |-> NoneObj, exc |-> contact.exc]
        ELSE IF contact.ret = NoneObj THEN [ret |-> NoneObj, exc |-> "HTTP404"]
        ELSE [ret |-> contact.ret, exc |-> ""]

\* ContactCreate declares no user_id: ContactCreate(**contact_data) drops the
\* key, the repository reads getattr(contact, 'user_id', None) = None and the
\* insert of a row with user_id NULL violates the column's NOT NULL
ContactService_create_contact(enabled, r, cs, email, user_id, f) ==
    IF get_contact_by_email(cs, email, user_id) # NoneObj
    THEN [cs |-> cs, r |-> r, exc |-> "HTTP400", wrote |-> FALSE, inval |-> FALSE,
          steps |-> <<>>]
    ELSE [cs |-> cs, r |-> r, exc |-> "IntegrityError", wrote |-> FALSE, inval |-> FALSE,
          steps |-> <<>>]

\* (mutant) the list is invalidated first, then the row is checked and written
ContactService_update_contact_invalidate_first(enabled, r, cs, contact_id, update_data, user_id, f) ==
    LET existing == get_contact_by_id(cs, contact_id)
        r1 == invalidate_contacts_cache(enabled, r, user_id, f).r
        inv == [m |-> "invalidate_contacts_cache", arg |-> user_id]
    IN
    IF existing = NoneObj \/ existing.user_id # user_id
    THEN [cs |-> cs, r |-> r, exc |-> "", wrote |-> FALSE, inval |-> FALSE,
          steps |-> <<>>]
    ELSE IF /\ "email" \in DOMAIN update_data
            /\ update_data.email # existing.email
            /\ get_contact_by_email(cs, update_data.email, user_id) # NoneObj
    THEN [cs |-> cs, r |-> r1, exc |-> "HTTP400", wrote |-> FALSE, inval |-> TRUE,
          steps |-> <<inv>>]
    ELSE [cs |-> repo_update_contact(cs, contact_id, update_data),
          r |-> r1, exc |-> "", wrote |-> TRUE, inval |-> TRUE,
          steps |-> <<inv, [m |-> "commit", arg |-> contact_id]>>]

ContactService_update_contact(enabled, r, cs, contact_id, update_data, user_id, f) ==
    LET existing == get_contact_by_id(cs, contact_id) IN
    IF existing = NoneObj \/ existing.user_id # user_id
    THEN [cs |-> cs, r |-> r, exc |-> "", wrote |-> FALSE, inval |-> FALSE,
          steps |-> <<>>]
    ELSE IF /\ "email" \in DOMAIN update_data
            /\ update_data.email # existing.email
            /\ get_contact_by_email(cs, update_data.email, user_id) # NoneObj
    THEN [cs |-> cs, r |-> r, exc |-> "HTTP400", wrote |-> FALSE, inval |-> FALSE,
          steps |-> <<>>]
    ELSE [cs |-> repo_update_contact(cs, contact_id, update_data),
          r |-> invalidate_contacts_cache(enabled, r, user_id, f).r,
          exc |-> "", wrote |-> TRUE, inval |-> TRUE,
          steps |-> <<[m |-> "commit", arg |-> contact_id],
                      [m |-> "invalidate_contacts_cache", arg |-> user_id]>>]

\* (mutant) the row is deleted and the cached list left in place
ContactService_delete_contact_no_invalidate(enabled, r, cs, contact_id, user_id, f) ==
    LET existing == get_contact_by_id(cs, contact_id) IN
    IF existing = NoneObj \/ existing.user_id # user_id
    THEN [cs |-> cs, r |-> r, exc |-> "", wrote |-> FALSE, inval |-> FALSE]
    ELSE [cs |-> repo_delete_contact(cs, contact_id), r |-> r,
          exc |-> "", wrote |-> TRUE, inval |-> FALSE]

ContactService_delete_contact(enabled, r, cs, contact_id, user_id, f) ==
    LET existing == get_contact_by_id(cs, contact_id) IN
    IF existing = NoneObj \/ existing.user_id # user_id
    THEN [cs |-> cs, r |-> r, exc |-> "", wrote |-> FALSE, inval |-> FALSE,
          steps |-> <<>>]
    ELSE [cs |-> repo_delete_contact(cs, contact_id),
          r |-> invalidate_contacts_cache(enabled, r, user_id, f).r,
          exc |-> "", wrote |-> TRUE, inval |-> TRUE,
          steps |-> <<[m |-> "commit", arg |-> contact_id],
                      [m |-> "invalidate_contacts_cache", arg |-> user_id]>>]

-----------------------------------------------------------------------------
(* Requests to the contact service *)

SvcGetContacts ==
    \E u \in UserIds, skip \in Skips, limit \in Limits,
       f1 \in ReadOutcomes, f2 \in WriteOutcomes :
        LET c == ContactService_get_contacts(cache_enabled, redis, contacts, u,
                                             skip, limit, f1, f2) IN
        /\ redis' = c.r
        /\ shadow' = Prune(IF c.populated
                           THEN ListSet(shadow, u, get_contacts_by_user(contacts, u, skip, limit))
                     ELSE shadow, redis')
        /\ last' = Done("get_contacts", u, c.exc = "", [hit |-> c.hit], "ok")
        /\ UNCHANGED <<users, contacts, cache_enabled, requests>>

SvcCreateContact ==
    \E u \in UserIds, email \in ContactEmails, f \in WriteOutcomes :
        LET c == ContactService_create_contact(cache_enabled, redis, contacts,
                                               email, u, f) IN
        /\ contacts' = c.cs
        /\ redis' = c.r
        /\ shadow' = Prune(IF c.wrote THEN Mutated(shadow, u, cache_enabled, f)
                           ELSE shadow, redis')
        /\ last' = Done("create_contact", u, c.wrote,
                        [had |-> ContactsKey(u) \in DOMAIN redis, exc |-> c.exc], "ok")
        /\ UNCHANGED <<users, cache_enabled, requests>>

SvcUpdateContact ==
    \E cid \in ContactIds, upd \in Updates, u \in UserIds, f \in WriteOutcomes :
        LET c == ContactService_update_contact(cache_enabled, redis, contacts,
                                               cid, upd, u, f) IN
        /\ contacts' = c.cs
        /\ redis' = c.r
        /\ shadow' = Prune(IF c.wrote THEN Mutated(shadow, u, cache_enabled, f)
                           ELSE shadow, redis')
        /\ last' = Done("update_contact", u, c.wrote,
                        [had |-> ContactsKey(u) \in DOMAIN redis, exc |-> c.exc], "ok")
        /\ UNCHANGED <<users, cache_enabled, requests>>

SvcDeleteContact ==
    \E cid \in ContactIds, u \in UserIds, f \in WriteOutcomes :
        LET c == ContactService_delete_contact(cache_enabled, redis, contacts,
                                               cid, u, f) IN
        /\ contacts' = c.cs
        /\ redis' = c.r
        /\ shadow' = Prune(IF c.wrote THEN Mutated(shadow, u, cache_enabled, f)
                           ELSE shadow, redis')
        /\ last' = Done("delete_contact", u, c.wrote, [had |-> ContactsKey(u) \in DOMAIN redis], "ok")
        /\ UNCHANGED <<users, cache_enabled, requests>>

ApiGetContact ==
    \E cid \in ContactIds, u \in DOMAIN users :
        LET c == get_contact(contacts, cid, users[u]) IN
        /\ last' = Done("get_contact", u, c.exc = "",
                        [exc |-> c.exc, contact_id |-> cid], "ok")
        /\ UNCHANGED <<users, contacts, redis, cache_enabled, shadow, requests>>

-----------------------------------------------------------------------------
(* Requests to the user service *)

UserReadDone(op, u, c) ==
    /\ redis' = c.r
    /\ shadow' = Prune(IF c.populated
                       THEN [shadow EXCEPT !.user[c.ret.id] = c.ret] ELSE shadow,
                       redis')
    /\ last' = Done(op, u, c.ret # NoneObj, [hit |-> c.hit], "ok")
    /\ UNCHANGED <<users, contacts, cache_enabled, requests>>

SvcGetUserById ==
    \E u \in UserIds, f1 \in ReadOutcomes, f2 \in WriteOutcomes :
        UserReadDone("UserService.get_user_by_id", u,
            UserService_get_user_by_id(cache_enabled, redis, users, u, f1, f2))

Usernames == {"alice", "bob", "al"}
Emails    == {"a@x.com", "b@x.com", "nobody@x.com"}

SvcGetUserByUsername ==
    \E username \in Usernames, f1 \in ReadOutcomes, f2 \in WriteOutcomes :
        UserReadDone("UserService.get_user_by_username", 0,
            UserService_get_user_by_username(cache_enabled, redis, users,
                                             username, f1, f2))

SvcGetUserByEmail ==
    \E email \in Emails, f1 \in ReadOutcomes, f2 \in WriteOutcomes :
        UserReadDone("UserService.get_user_by_email", 0,
            UserService_get_user_by_email(cache_enabled, redis, users,
                                          email, f1, f2))

NextContacts ==
    \/ SvcGetContacts
    \/ ApiGetContact
    \/ SvcCreateContact
    \/ SvcUpdateContact
    \/ SvcDeleteContact
    \/ CallSetContactsCache
    \/ CallGetContactsCache
    \/ CallInvalidateContactsCache
    \/ Tick

SpecContacts == Init /\ [][NextContacts]_vars

\* C28: per-user uniqueness of contact emails.  No two contacts of one user
\* have the same email, and a create or an email-changing update that would
\* produce a duplicate fails with 400, writes nothing to the store and leaves
\* the key space as it is.
C28_ContactEmailUnique ==
    /\ \A c \in DOMAIN contacts : \A d \in DOMAIN contacts \ {c} :
           contacts[c].user_id = contacts[d].user_id =>
               contacts[c].email # contacts[d].email
    /\ \A u \in UserIds, f \in WriteOutcomes :
        /\ \A email \in ContactEmails :
               (\E d \in DOMAIN contacts :
                    contacts[d].user_id = u /\ contacts[d].email = email) =>
                   LET c == ContactService_create_contact(cache_enabled, redis,
                                                          contacts, email, u, f)
                   IN  c.exc = "HTTP400" /\ c.cs = contacts /\ c.r = redis
        /\ \A cid \in DOMAIN contacts, upd \in Updates :
               (/\ contacts[cid].user_id = u
                /\ "email" \in DOMAIN upd
                /\ \E d \in DOMAIN contacts \ {cid} :
                       contacts[d].user_id = u /\ contacts[d].email = upd.email) =>
                   LET c == ContactService_update_contact(cache_enabled, redis,
                                                          contacts, cid, upd, u, f)
                   IN  c.exc = "HTTP400" /\ c.cs = contacts /\ c.r = redis

\* an update of a contact's email to that of another contact was refused
\* while the list was cached
C28_Witness ==
    /\ last.op = "update_contact"
    /\ ~last.ok
    /\ last.val.exc = "HTTP400"
    /\ last.val.had
    /\ ContactsKey(last.arg) \in DOMAIN redis

-----------------------------------------------------------------------------
(* Malformed payloads.  The backend outlives the service and is shared, so  *)
(* the service may find, under its own keys, values it did not write.       *)

\* the keys of alice found holding a value that is not JSON
InitMalformed ==
    /\ users = InitUsers
    /\ contacts = InitContacts
    /\ \E keys \in SUBSET (UserKeys(InitUsers[1]) \cup {ContactsKey(1)}) :
           redis = [k \in keys |->
                       [val |-> Malformed,
                        ttl |-> IF k = ContactsKey(1) THEN ContactsTtl ELSE UserTtl]]
    /\ cache_enabled \in BOOLEAN
    /\ shadow = InitShadow
    /\ last = Done("init", 0, TRUE, NoneObj, "ok")
    /\ requests = {}

NextMalformed ==
    \/ CallGetUserById
    \/ CallGetUserByUsername
    \/ CallGetUserByEmail
    \/ CallGetContactsCache
    \/ CallSetUserCache
    \/ CallSetContactsCache
    \/ Tick

SpecMalformed == InitMalformed /\ [][NextMalformed]_vars

\* C30: a malformed cached payload is a miss.  A value that does not decode
\* as JSON under a user key or a contacts key makes get_user_by_id,
\* get_user_by_username, get_user_by_email and get_contacts_cache return a
\* miss without raising, and the lookup leaves that key and every other key
\* as they are; the value stays until a write replaces it (or the entry
\* expires).
C30_MalformedIsMiss ==
    /\ [](\A f \in ReadOutcomes :
            /\ \A u \in UserIds :
                /\ RedisGet(redis, _generate_key("user_id", ToString(u))) = Malformed =>
                       get_user_by_id(cache_enabled, redis, u, f)
                           = [r |-> redis, ret |-> NoneObj]
                /\ RedisGet(redis, ContactsKey(u)) = Malformed =>
                       get_contacts_cache(cache_enabled, redis, u, f)
                           = [r |-> redis, ret |-> NoneObj]
            /\ \A username \in Usernames :
                   RedisGet(redis, _generate_key("user_username", username)) = Malformed =>
                       get_user_by_username(cache_enabled, redis, username, f)
                           = [r |-> redis, ret |-> NoneObj]
            /\ \A email \in Emails :
                   RedisGet(redis, _generate_key("user_email", email)) = Malformed =>
                       get_user_by_email(cache_enabled, redis, email, f)
                           = [r |-> redis, ret |-> NoneObj])
    /\ [][\A k \in DOMAIN redis :
              (redis[k].val = Malformed /\ k \in DOMAIN redis'
               /\ redis'[k].val # Malformed) =>
                  /\ last'.op \in {"set_user_cache", "set_contacts_cache"}
                  /\ cache_enabled]_vars

\* the id key of a user holds a malformed value, it was looked up over a
\* healthy connection and answered with a miss, and it is still there
C30_Witness ==
    /\ last.op = "get_user_by_id"
    /\ ~last.ok
    /\ last.f = "ok"
    /\ cache_enabled
    /\ RedisGet(redis, _generate_key("user_id", ToString(last.arg))) = Malformed

-----------------------------------------------------------------------------
(* What a caller with a healthy connection is answered right now *)

ById(u)       == get_user_by_id(cache_enabled, redis, u, "ok").ret
ByUsername(n) == get_user_by_username(cache_enabled, redis, n, "ok").ret
ByEmail(e)    == get_user_by_email(cache_enabled, redis, e, "ok").ret

\* the cached fields of a user object, taken from the object itself
Snapshot(user) == [k \in SnapshotFields |-> user[k]]

\* C1: triple-key consistency.  For every user whose id, username and email
\* are fixed, the lookups by id, by username and by email either all miss or
\* all return the snapshot of the object given to the most recent applied
\* set_user_cache; all three miss right after a successful
\* invalidate_user_cache, and all three show is_active = false right after a
\* successful set_user_cache of an inactive object.
C1_TripleKeyConsistency ==
    \A u \in DOMAIN users :
        LET a == ById(u)
            b == ByUsername(users[u].username)
            c == ByEmail(users[u].email)
        IN  /\ a = b
            /\ b = c
            /\ a # NoneObj =>
                   /\ shadow.user[u] # NoneObj
                   /\ a = Snapshot(shadow.user[u])
            /\ (last.op = "invalidate_user_cache" /\ last.arg = u /\ last.ok)
                   => a = NoneObj
            /\ (last.op = "set_user_cache" /\ last.arg = u /\ last.ok)
                   => (a # NoneObj /\ a.is_active = last.val.is_active)

\* an inactive snapshot replaced an active one and is what all three keys show
C1_Witness ==
    /\ last.op = "set_user_cache"
    /\ last.ok
    /\ ~last.val.is_active
    /\ ByEmail(users[last.arg].email) # NoneObj
    /\ ByUsername(users[last.arg].username).is_active = FALSE

\* the three identity keys of a user hold the same value with the same
\* remaining lifetime, or none of them is present
TripleUniform(r, user) ==
    \/ UserKeys(user) \cap DOMAIN r = {}
    \/ /\ UserKeys(user) \subseteq DOMAIN r
       /\ \A k1, k2 \in UserKeys(user) : r[k1] = r[k2]

\* C10: multi-key atomicity.  Every step leaves each user's three identity
\* keys written together or deleted together, so no reader between two steps
\* sees one key reflect a set_user_cache or invalidate_user_cache and a
\* sibling not; and a set_user_cache whose write fails returns False and
\* changes none of the keys.
C10_MultiKeyAtomicity ==
    [][ /\ \A u \in DOMAIN users : TripleUniform(redis', users[u])
        /\ (last'.op = "set_user_cache" /\ last'.f = "err")
               => (~last'.ok /\ redis' = redis) ]_vars

\* a set_user_cache failed on the backend while the user was cached
C10_Witness ==
    /\ last.op = "set_user_cache"
    /\ last.f = "err"
    /\ cache_enabled
    /\ ById(last.arg) # NoneObj
    /\ ById(last.arg).is_active # last.val.is_active

-----------------------------------------------------------------------------
ContactsLookup(u) == get_contacts_cache(cache_enabled, redis, u, "ok").ret

C12_EntireListCached ==
    \A u \in UserIds :
        (ContactsLookup(u) # NoneObj /\ ~shadow.dirty[u]) =>
            /\ Len(ContactsLookup(u).list) = Len(ContactsOf(contacts, u))
            /\ ContactService_get_contacts(cache_enabled, redis, contacts, u,
                                           0, 100, "ok", "ok").ret
                   = get_contacts_by_user(contacts, u, 0, 100)

\* C18 (as claimed): cross-user isolation of contacts.  For a contact owned
\* by A and any other user B, B getting it is answered not-found, B updating
\* or deleting it is answered not-found with the store as it was, and none of
\* these attempts invalidates a contacts cache entry.
C18_CrossUserIsolation ==
    /\ (/\ last.op = "get_contact"
        /\ last.val.contact_id \in DOMAIN contacts
        /\ contacts[last.val.contact_id].user_id # last.arg) =>
           last.val.exc = "HTTP404"
    /\ \A cid \in DOMAIN contacts, f \in WriteOutcomes :
        \A u \in UserIds \ {contacts[cid].user_id} :
           /\ \A upd \in Updates :
                  LET c == ContactService_update_contact(cache_enabled, redis,
                               contacts, cid, upd, u, f)
                  IN  c.exc = "" /\ ~c.wrote /\ ~c.inval /\ c.cs = contacts /\ c.r = redis
           /\ LET c == ContactService_delete_contact(cache_enabled, redis,
                           contacts, cid, u, f)
              IN  c.exc = "" /\ ~c.wrote /\ ~c.inval /\ c.cs = contacts /\ c.r = redis

-----------------------------------------------------------------------------
(* Round trips: rows of every supported shape are cached and read back *)

UserShapes ==
    {[full_name |-> NoneStr, is_verified |-> FALSE, avatar_url |-> NoneStr,
      hashed_password |-> "h0"],
     [full_name |-> "Al", is_verified |-> TRUE, avatar_url |-> "http://img/a1",
      hashed_password |-> "h1"],
     [full_name |-> "Al", is_verified |-> FALSE, avatar_url |-> NoneStr,
      hashed_password |-> "h1"]}

ContactShapes ==
    {[birthday |-> [y |-> 1990, m |-> 1, d |-> 9], additional_info |-> NoneStr],
     [birthday |-> [y |-> 2001, m |-> 12, d |-> 31], additional_info |-> ""],
     [birthday |-> [y |-> 2001, m |-> 12, d |-> 31], additional_info |-> "note"]}

InitRoundTrip ==
    /\ \E shape \in UserShapes :
          users = [InitUsers EXCEPT ![1] =
                      [@ EXCEPT !.full_name = shape.full_name,
                                !.is_verified = shape.is_verified,
                                !.avatar_url = shape.avatar_url,
                                !.hashed_password = shape.hashed_password]]
    /\ \E shape \in ContactShapes :
          contacts = [InitContacts EXCEPT ![1] =
                         [@ EXCEPT !.birthday = shape.birthday,
                                   !.additional_info = shape.additional_info]]
    /\ redis = EmptyRedis
    /\ cache_enabled = TRUE
    /\ shadow = InitShadow
    /\ last = Done("init", 0, TRUE, NoneObj, "ok")
    /\ requests = {}

NextRoundTrip ==
    \/ CallSetUserCache
    \/ SvcGetUserById
    \/ CallSetContactsCache
    \/ SvcGetContacts

SpecRoundTrip == InitRoundTrip /\ [][NextRoundTrip]_vars

\* C8: round-trip fidelity.  The contacts that ContactService.get_contacts
\* rebuilds from a cached list equal the contacts given to set_contacts_cache
\* on id, first_name, last_name, email, phone, birthday (a date),
\* additional_info and user_id; the user that UserService.get_user_by_id
\* rebuilds from the cache equals the user given to set_user_cache on the
\* eight snapshot fields; no cached document has a relationship member.
C8_RoundTripFidelity ==
    /\ \A u \in UserIds :
          shadow.user[u] # NoneObj =>
              LET back == UserService_get_user_by_id(cache_enabled, redis, users,
                                                     u, "ok", "ok")
              IN  /\ back.hit
                  /\ \A k \in SnapshotFields : back.ret[k] = shadow.user[u][k]
    /\ \A u \in UserIds :
          (shadow.contacts[u] # NoneObj /\ Len(shadow.contacts[u].list) > 0) =>
              LET given == shadow.contacts[u].list
                  back  == ContactService_get_contacts(cache_enabled, redis, contacts,
                                                       u, 0, 100, "ok", "ok")
              IN  /\ back.hit
                  /\ back.exc = ""
                  /\ Len(back.ret) = Len(given)
                  /\ \A i \in 1..Len(given) :
                         \A k \in DOMAIN InitContacts[1] : back.ret[i][k] = given[i][k]
    /\ \A key \in DOMAIN redis :
          IF "obj" \in DOMAIN redis[key].val
          THEN DOMAIN redis[key].val.obj = SnapshotFields
          ELSE \A i \in 1..Len(redis[key].val.arr) :
                   DOMAIN redis[key].val.arr[i] = DOMAIN InitContacts[1]

\* a user with a null full name and a contact with null additional_info and
\* a two-digit month were both read back out of the cache
C8_Witness ==
    /\ last.op = "get_contacts"
    /\ last.val.hit
    /\ shadow.contacts[1] # NoneObj
    /\ shadow.contacts[1].list[1].additional_info = ""
    /\ shadow.contacts[1].list[1].birthday.m = 12
    /\ shadow.user[1] # NoneObj
    /\ shadow.user[1].full_name = NoneStr
    /\ ~shadow.user[1].is_active

-----------------------------------------------------------------------------
(* Role gate and AdminService.  A handler yields the new store us, the new *)
(* key space r, what it returns (ret), the exception it raises (exc) and   *)
(* the cache calls it made, in order (calls).                              *)

Call(m, arg) == [m |-> m, arg |-> arg]

CountCalls(calls, m, arg) ==
    Cardinality({i \in DOMAIN calls : calls[i] = Call(m, arg)})

\* (mutant) the row is returned as it was read, before the change
repo_update_user_role_stale_return(us, user_id, new_role) ==
    IF user_id \notin DOMAIN us THEN [us |-> us, ret |-> NoneObj]
    ELSE IF new_role \notin Roles THEN [us |-> us, ret |-> NoneObj]
    ELSE LET row == [us[user_id] EXCEPT !.role = new_role]
         IN  [us |-> [us EXCEPT ![user_id] = row], ret |-> us[user_id]]

\* UserRepository.update_user_role; new_role is a member of the role enum
repo_update_user_role(us, user_id, new_role) ==
    IF user_id \notin DOMAIN us THEN [us |-> us, ret |-> NoneObj]
    ELSE IF new_role \notin Roles THEN [us |-> us, ret |-> NoneObj]
    ELSE LET row == [us[user_id] EXCEPT !.role = new_role]
         IN  [us |-> [us EXCEPT ![user_id] = row], ret |-> row]

repo_update_user_status(us, user_id, is_active) ==
    IF user_id \notin DOMAIN us THEN [us |-> us, ret |-> NoneObj]
    ELSE LET row == [us[user_id] EXCEPT !.is_active = is_active]
         IN  [us |-> [us EXCEPT ![user_id] = row], ret |-> row]

\* get_current_active_user, then the role check of get_current_admin
get_current_admin(us) ==
    {us[u] : u \in {q \in DOMAIN us : us[q].is_active /\ us[q].role = "admin"}}

\* require_role(required_role): f1 is the round trip of the cached check,
\* f2 that of cache_user_role after a miss
role_dependency(enabled, r, current_user, required_role, f1, f2) ==
    LET cached_permission ==
            check_role_permission(enabled, r, current_user.id, required_role, f1).ret
    IN  IF cached_permission.known
        THEN [r |-> r, allowed |-> cached_permission.allowed, cached |-> FALSE]
        ELSE [r |-> cache_user_role(enabled, r, current_user.id,
                                    current_user.role, f2).r,
              allowed |-> ~(role_hierarchy(current_user.role)
                                < (IF required_role \in Roles
                                   THEN role_hierarchy(required_role) ELSE 999)),
              cached |-> enabled /\ Applied(f2)]

\* (mutant) a required role outside the hierarchy ranks 0, as an unknown role
\* of the user does
check_user_role_unknown_zero(user, required_role) ==
    LET user_role_level == role_hierarchy(user.role)
        required_role_level == role_hierarchy(required_role)
    IN  user_role_level >= required_role_level

\* role_hierarchy.get(user.role.value, 0) against
\* role_hierarchy.get(required_role, 999)
check_user_role(user, required_role) ==
    LET user_role_level == role_hierarchy(user.role)
        required_role_level == IF required_role \in Roles
                               THEN role_hierarchy(required_role) ELSE 999
    IN  user_role_level >= required_role_level

\* (mutant) the role cache is left alone
AdminService_update_user_role_no_role_invalidation(enabled, r, us, user_id, new_role, admin_user, f1, f2, f3) ==
    IF user_id = admin_user.id /\ new_role # "admin"
    THEN [us |-> us, r |-> r, ret |-> NoneObj, exc |-> "ValueError", calls |-> <<>>]
    ELSE LET updated == repo_update_user_role(us, user_id, new_role)
         IN  IF updated.ret = NoneObj
             THEN [us |-> us, r |-> r, ret |-> NoneObj, exc |-> "", calls |-> <<>>]
             ELSE LET a == cache_admin_action(enabled, r, admin_user.id,
                                              "role_change_to_" \o new_role, user_id, f1)
                      b == invalidate_user_cache(enabled, a.r, updated.ret, f2)
                  IN  [us |-> updated.us, r |-> b.r, ret |-> updated.ret, exc |-> "",
                       calls |-> <<Call("cache_admin_action", user_id),
                                   Call("invalidate_user_cache", user_id)>>]

\* f1, f2, f3: the round trips of the audit write and the two invalidations
AdminService_update_user_role(enabled, r, us, user_id, new_role, admin_user, f1, f2, f3) ==
    IF user_id = admin_user.id /\ new_role # "admin"
    THEN [us |-> us, r |-> r, ret |-> NoneObj, exc |-> "ValueError", calls |-> <<>>, steps |-> <<>>]
    ELSE LET updated == repo_update_user_role(us, user_id, new_role)
         IN  IF updated.ret = NoneObj
             THEN [us |-> us, r |-> r, ret |-> NoneObj, exc |-> "", calls |-> <<>>, steps |-> <<>>]
             ELSE LET a == cache_admin_action(enabled, r, admin_user.id,
                                              "role_change_to_" \o new_role, user_id, f1)
                      b == invalidate_user_cache(enabled, a.r, updated.ret, f2)
                      c == invalidate_user_role_cache(enabled, b.r, user_id, f3)
                  IN  [us |-> updated.us, r |-> c.r, ret |-> updated.ret, exc |-> "",
                       calls |-> <<Call("cache_admin_action", user_id),
                                   Call("invalidate_user_cache", user_id),
                                   Call("invalidate_user_role_cache", user_id)>>,
                       steps |-> <<Call("commit", user_id),
                                   Call("cache_admin_action", user_id),
                                   Call("invalidate_user_cache", user_id),
                                   Call("invalidate_user_role_cache", user_id)>>]

\* (mutant) an audit record that could not be written fails the action
AdminService_update_user_status_audit_required(enabled, r, us, user_id, is_active, admin_user, f1, f2) ==
    IF user_id = admin_user.id /\ ~is_active
    THEN [us |-> us, r |-> r, ret |-> NoneObj, exc |-> "ValueError", calls |-> <<>>]
    ELSE LET updated == repo_update_user_status(us, user_id, is_active)
         IN  IF updated.ret = NoneObj
             THEN [us |-> us, r |-> r, ret |-> NoneObj, exc |-> "", calls |-> <<>>]
             ELSE LET a == cache_admin_action(enabled, r, admin_user.id,
                                              IF is_active THEN "user_activated"
                                              ELSE "user_deactivated", user_id, f1)
                      b == invalidate_user_cache(enabled, a.r, updated.ret, f2)
                  IN  IF ~a.ret
                      THEN [us |-> updated.us, r |-> a.r, ret |-> NoneObj,
                            exc |-> "RuntimeError",
                            calls |-> <<Call("cache_admin_action", user_id)>>]
                      ELSE [us |-> updated.us, r |-> b.r, ret |-> updated.ret,
                            exc |-> "",
                            calls |-> <<Call("cache_admin_action", user_id),
                                        Call("invalidate_user_cache", user_id)>>]

AdminService_update_user_status(enabled, r, us, user_id, is_active, admin_user, f1, f2) ==
    IF user_id = admin_user.id /\ ~is_active
    THEN [us |-> us, r |-> r, ret |-> NoneObj, exc |-> "ValueError", calls |-> <<>>, steps |-> <<>>]
    ELSE LET updated == repo_update_user_status(us, user_id, is_active)
         IN  IF updated.ret = NoneObj
             THEN [us |-> us, r |-> r, ret |-> NoneObj, exc |-> "", calls |-> <<>>, steps |-> <<>>]
             ELSE LET a == cache_admin_action(enabled, r, admin_user.id,
                                              IF is_active THEN "user_activated"
                                              ELSE "user_deactivated", user_id, f1)
                      b == invalidate_user_cache(enabled, a.r, updated.ret, f2)
                  IN  [us |-> updated.us, r |-> b.r, ret |-> updated.ret, exc |-> "",
                       calls |-> <<Call("cache_admin_action", user_id),
                                   Call("invalidate_user_cache", user_id)>>,
                       steps |-> <<Call("commit", user_id),
                                   Call("cache_admin_action", user_id),
                                   Call("invalidate_user_cache", user_id)>>]

-----------------------------------------------------------------------------
(* Requests to the admin API and through the role gate *)

\* the users an admin request names: bob, and an id that does not exist
TargetIds == {2, 3}

\* the round trips of one admin request: all answered, or one of them failing
AdminOutcomes ==
    {<<"ok", "ok", "ok">>, <<"err", "ok", "ok">>, <<"ok", "err", "ok">>,
     <<"ok", "ok", "err">>, <<"ok", "ok", "lost">>, <<"err", "err", "err">>}

\* the roles a caller may ask for, and the role values a user object may
\* carry: those of the hierarchy and one outside it
RequiredRoles == Roles \cup {"superuser"}
HeldRoles     == Roles \cup {"guest"}

RequireRole ==
    \E u \in DOMAIN users, required_role \in RequiredRoles,
       f1 \in ReadOutcomes, f2 \in WriteOutcomes :
        /\ users[u].is_active
        /\ LET c == role_dependency(cache_enabled, redis, users[u], required_role,
                                    f1, f2) IN
           /\ redis' = c.r
           /\ shadow' = Prune(IF c.cached THEN [shadow EXCEPT !.role[u] = "cached"]
                              ELSE shadow, redis')
           /\ last' = Done("require_role", u, c.allowed, NoneObj, "ok")
        /\ UNCHANGED <<users, contacts, cache_enabled, requests>>

CheckUserRole ==
    \E u \in DOMAIN users, role \in HeldRoles, required_role \in RequiredRoles :
        LET user == [users[u] EXCEPT !.role = role] IN
        /\ last' = Done("check_user_role", u, check_user_role(user, required_role),
                        [role |-> role, required_role |-> required_role], "ok")
        /\ UNCHANGED <<users, contacts, redis, cache_enabled, shadow, requests>>

CallGetUserRoleCache ==
    \E u \in UserIds, f \in ReadOutcomes :
        LET c == get_user_role_cache(cache_enabled, redis, u, f) IN
        /\ last' = Done("get_user_role_cache", u, c.ret # NoneStr,
                        [role |-> c.ret], "ok")
        /\ UNCHANGED <<users, contacts, redis, cache_enabled, shadow, requests>>

AdminUpdateUserRole ==
    \E admin_user \in get_current_admin(users), user_id \in TargetIds,
       new_role \in Roles, f \in AdminOutcomes :
        LET c == AdminService_update_user_role(cache_enabled, redis, users, user_id,
                                               new_role, admin_user, f[1], f[2], f[3])
            wrote == c.ret # NoneObj
        IN
        /\ users' = c.us
        /\ redis' = c.r
        /\ shadow' = Prune(IF wrote /\ (~cache_enabled \/ Applied(f[3]))
                           THEN [shadow EXCEPT !.role[user_id] = "invalidated"]
                           ELSE shadow, redis')
        /\ last' = Done("update_user_role", user_id, wrote,
                        [exc |-> c.exc, ret |-> c.ret,
                         user_invalidations |->
                             CountCalls(c.calls, "invalidate_user_cache", user_id),
                         role_invalidations |->
                             CountCalls(c.calls, "invalidate_user_role_cache", user_id),
                         old_role |-> IF wrote THEN users[user_id].role ELSE NoneStr,
                         had |-> IF wrote
                                 THEN get_user_role_cache(cache_enabled, redis,
                                                          user_id, "ok").ret
                                 ELSE NoneStr],
                        "ok")
        /\ UNCHANGED <<contacts, cache_enabled, requests>>

AdminUpdateUserStatus ==
    \E admin_user \in get_current_admin(users), user_id \in TargetIds,
       is_active \in BOOLEAN, f \in AdminOutcomes :
        LET c == AdminService_update_user_status(cache_enabled, redis, users, user_id,
                                                 is_active, admin_user, f[1], f[2])
        IN
        /\ users' = c.us
        /\ redis' = c.r
        /\ shadow' = Prune(shadow, redis')
        /\ last' = Done("update_user_status", user_id, c.ret # NoneObj,
                        [exc |-> c.exc,
                         user_invalidations |->
                             CountCalls(c.calls, "invalidate_user_cache", user_id)],
                        "ok")
        /\ UNCHANGED <<contacts, cache_enabled, requests>>

NextAdmin ==
    \/ RequireRole
    \/ CallGetUserRoleCache
    \/ AdminUpdateUserRole
    \/ Tick

SpecAdmin == Init /\ [][NextAdmin]_vars

-----------------------------------------------------------------------------
(* The audit trail next to the other cache operations *)

AuditLimits == 0..2

\* the service starts on a key space that holds one audit record of an
\* earlier run
InitAudit ==
    /\ users = InitUsers
    /\ contacts = InitContacts
    /\ redis \in {EmptyRedis,
                  RedisSetex(EmptyRedis, AuditKey(0), AuditTtl,
                             [audit |-> [admin_id |-> 1, action |-> "activate_user",
                                         target_user_id |-> 2, timestamp |-> 1]])}
    /\ cache_enabled \in BOOLEAN
    /\ shadow = InitShadow
    /\ last = Done("init", 0, TRUE, NoneObj, "ok")
    /\ requests = {}

\* AdminActionLoggingRoute: a request under /api/admin that was answered 2xx
\* is recorded with target_user_id 0
AdminLoggingRouteHandler ==
    \E admin_user \in get_current_admin(users), f \in WriteOutcomes :
        LET c == cache_admin_action(cache_enabled, redis, admin_user.id,
                                    "GET_/api/admin/users", 0, f) IN
        /\ redis' = c.r
        /\ last' = Done("cache_admin_action", admin_user.id, c.ret,
                        [written |-> c.r # redis], f)
        /\ UNCHANGED <<users, contacts, cache_enabled, shadow, requests>>

CallGetRecentAdminActions ==
    \E limit \in AuditLimits, f \in ReadOutcomes :
        LET c == get_recent_admin_actions(cache_enabled, redis, limit, f) IN
        /\ redis' = c.r
        /\ last' = Done("get_recent_admin_actions", limit, TRUE,
                        [actions |-> c.ret], f)
        /\ UNCHANGED <<users, contacts, cache_enabled, shadow, requests>>

NextAudit ==
    \/ AdminLoggingRouteHandler
    \/ CallGetRecentAdminActions
    \/ CallSetUserCache
    \/ CallInvalidateUserCache
    \/ CallClearUserAllCache
    \/ Tick

SpecAudit == InitAudit /\ [][NextAudit]_vars

NextRoles ==
    \/ RequireRole
    \/ CheckUserRole
    \/ AdminUpdateUserStatus
    \/ Tick

SpecRoles == Init /\ [][NextRoles]_vars

\* C20: roles are ordered user < moderator < admin; check_user_role, and
\* require_role when the cached check is a miss, grant access exactly when the
\* rank of the user's role is at least the rank of the required role; a
\* required role outside the hierarchy is never satisfied, and a user role
\* outside the hierarchy satisfies no required role of the hierarchy.
C20_RoleHierarchy ==
    LET rank == [user |-> 1, moderator |-> 2, admin |-> 3]
        granted(role, required_role) ==
            /\ required_role \in Roles
            /\ role \in Roles
            /\ rank[role] >= rank[required_role]
    IN  /\ rank["user"] < rank["moderator"] /\ rank["moderator"] < rank["admin"]
        /\ \A u \in DOMAIN users, role \in HeldRoles, required_role \in RequiredRoles :
               LET user == [users[u] EXCEPT !.role = role] IN
               /\ check_user_role(user, required_role) = granted(role, required_role)
               /\ \A f1 \in ReadOutcomes, f2 \in WriteOutcomes :
                      ~check_role_permission(cache_enabled, redis, u,
                                             required_role, f1).ret.known =>
                          role_dependency(cache_enabled, redis, user, required_role,
                                          f1, f2).allowed
                              = granted(role, required_role)

\* an admin was checked against a role outside the hierarchy and refused, and
\* the gate has answered from the store for some user
C20_Witness ==
    /\ last.op = "check_user_role"
    /\ last.val.role = "admin"
    /\ last.val.required_role \notin Roles
    /\ ~last.ok
    /\ \E u \in DOMAIN users : shadow.role[u] = "cached"

\* C24 (as claimed): whenever update_user_status changes a user's activation
\* status in the store, the cached role of that user is gone when the call
\* returns.
C24_StatusChangeInvalidatesRole ==
    [][\A u \in DOMAIN users :
          (u \in DOMAIN users' /\ users'[u].is_active # users[u].is_active) =>
              RoleKey(u) \notin DOMAIN redis']_vars

\* activation and deactivation of accounts, with the reads that fill the
\* user cache
NextStatus ==
    \/ SvcGetUserById
    \/ AdminUpdateUserStatus
    \/ Tick

SpecStatus == Init /\ [][NextStatus]_vars

C4_RoleChangeInvalidatesOnce ==
    [][\A u \in UserIds :
          users'[u].role # users[u].role =>
              /\ last'.op = "update_user_role"
              /\ last'.arg = u
              /\ last'.val.exc = ""
              /\ last'.val.role_invalidations = 1
              /\ last'.val.ret = users'[u]]_vars

\* a role was changed and the updated row returned
C4_Witness ==
    /\ last.op = "update_user_role"
    /\ last.ok
    /\ last.val.old_role # last.val.ret.role
    /\ last.val.role_invalidations = 1
    /\ last.val.ret = users[last.arg]

-----------------------------------------------------------------------------
(* Password reset: UserRepository and the two handlers of api/auth.py *)

TokenTtl     == 2   \* a reset token is valid for one hour
NewPasswords == {"short", "long-enough"}
GenericMessage ==
    "If the email exists and is active, password reset instructions have been sent"

\* AuthService.get_password_hash: a salted one-way hash, kept symbolic
get_password_hash(password) == "bcrypt(" \o password \o ")"

\* (mutant) a token that is still pending is kept, with the expiry it had
set_reset_token_keeps_pending(us, email, reset_token, expires_at) ==
    [u \in DOMAIN us |->
        IF us[u].email = email /\ us[u].reset_expires = 0
        THEN [us[u] EXCEPT !.reset_token = reset_token, !.reset_expires = expires_at]
        ELSE us[u]]

set_reset_token(us, email, reset_token, expires_at) ==
    [u \in DOMAIN us |->
        IF us[u].email = email
        THEN [us[u] EXCEPT !.reset_token = reset_token, !.reset_expires = expires_at]
        ELSE us[u]]

\* the token must match and not be expired
get_user_by_reset_token(us, reset_token) ==
    LET found == {u \in DOMAIN us : us[u].reset_token = reset_token
                                    /\ us[u].reset_expires > 0}
    IN  IF found = {} THEN NoneObj
        ELSE us[CHOOSE u \in found : \A o \in found : u <= o]

\* (mutant) the expiry is cleared and the token left in the row
clear_reset_token_keeps_token(us, user_id) ==
    [us EXCEPT ![user_id] = [@ EXCEPT !.reset_expires = TokenTtl]]

clear_reset_token(us, user_id) ==
    [us EXCEPT ![user_id] = [@ EXCEPT !.reset_token = NoneStr, !.reset_expires = 0]]

update_password(us, user_id, new_password) ==
    [us EXCEPT ![user_id].hashed_password = get_password_hash(new_password)]

\* (mutant) an unexpected error is answered with a server error
forgot_password_except_500 ==
    [status |-> 500, message |-> "Internal Server Error"]

\* the except clause of forgot_password: the generic answer again
forgot_password_except == [status |-> 200, message |-> GenericMessage]

\* (mutant) the throttle is asked with max_attempts=2
forgot_password_max_two(enabled, r, us, email, reset_token, f1, f2, db) ==
    LET attempt == check_reset_attempts(enabled, r, email, 2, f1)
        user    == repo_get_user_by_email(us, email)
    IN  IF ~attempt.ret
        THEN [us |-> us, r |-> attempt.r, allowed |-> FALSE, issued |-> FALSE,
              status |-> 200, message |-> GenericMessage]
        ELSE IF db = "err"
        THEN [us |-> us, r |-> attempt.r, allowed |-> TRUE, issued |-> FALSE,
              status |-> forgot_password_except.status,
              message |-> forgot_password_except.message]
        ELSE IF user # NoneObj /\ user.is_active
        THEN [us |-> set_reset_token(us, email, reset_token, TokenTtl),
              r |-> set_reset_token_cache(enabled, attempt.r, email, reset_token, f2).r,
              allowed |-> TRUE, issued |-> TRUE,
              status |-> 200, message |-> GenericMessage]
        ELSE [us |-> us, r |-> attempt.r, allowed |-> TRUE, issued |-> FALSE,
              status |-> 200, message |-> GenericMessage]

\* f1: the round trip of check_reset_attempts, f2: of set_reset_token_cache;
\* db: whether the store answers the query for the user or raises
forgot_password(enabled, r, us, email, reset_token, f1, f2, db) ==
    LET attempt == check_reset_attempts(enabled, r, email, MaxAttempts, f1)
        user    == repo_get_user_by_email(us, email)
    IN  IF ~attempt.ret
        THEN [us |-> us, r |-> attempt.r, allowed |-> FALSE, issued |-> FALSE, mail |-> <<>>,
              status |-> 200, message |-> GenericMessage]
        ELSE IF db = "err"
        THEN [us |-> us, r |-> attempt.r, allowed |-> TRUE, issued |-> FALSE, mail |-> <<>>,
              status |-> forgot_password_except.status,
              message |-> forgot_password_except.message]
        ELSE IF user # NoneObj /\ user.is_active
        THEN [us |-> set_reset_token(us, email, reset_token, TokenTtl),
              r |-> set_reset_token_cache(enabled, attempt.r, email, reset_token, f2).r,
              allowed |-> TRUE, issued |-> TRUE, mail |-> <<email>>,
              status |-> 200, message |-> GenericMessage]
        ELSE [us |-> us, r |-> attempt.r, allowed |-> TRUE, issued |-> FALSE, mail |-> <<>>,
              status |-> 200, message |-> GenericMessage]

\* f1: the round trip of invalidate_reset_token, f2: of invalidate_user_cache
reset_password(enabled, r, us, token, new_password, f1, f2) ==
    LET user == get_user_by_reset_token(us, token)
    IN  IF user = NoneObj
        THEN [us |-> us, r |-> r, exc |-> "HTTP400", email |-> NoneStr, calls |-> <<>>, steps |-> <<>>,
              detail |-> "Invalid or expired reset token"]
        ELSE IF ~user.is_active
        THEN [us |-> us, r |-> r, exc |-> "HTTP400", email |-> NoneStr, calls |-> <<>>, steps |-> <<>>,
              detail |-> "Account is disabled"]
        ELSE IF Len(new_password) < 6
        THEN [us |-> us, r |-> r, exc |-> "HTTP400", email |-> NoneStr, calls |-> <<>>, steps |-> <<>>,
              detail |-> "Password must be at least 6 characters long"]
        ELSE LET us1 == update_password(us, user.id, new_password)
                 us2 == clear_reset_token(us1, user.id)
                 r1  == invalidate_reset_token(enabled, r, token, user.email, f1).r
                 r2  == invalidate_user_cache(enabled, r1, user, f2).r
             IN  [us |-> us2, r |-> r2, exc |-> "", email |-> user.email,
                  detail |-> "",
                  calls |-> <<Call("invalidate_reset_token", user.email),
                              Call("invalidate_user_cache", user.id)>>,
                  steps |-> <<Call("commit", user.id), Call("commit", user.id),
                              Call("invalidate_reset_token", user.email),
                              Call("invalidate_user_cache", user.id)>>]

-----------------------------------------------------------------------------
(* Requests to the password-reset endpoints *)

ForgotPassword ==
    \E email \in ResetEmails, reset_token \in Tokens,
       f1 \in WriteOutcomes, f2 \in WriteOutcomes, db \in ReadOutcomes :
        LET c == forgot_password(cache_enabled, redis, users, email, reset_token,
                                 f1, f2, db) IN
        /\ users' = c.us
        /\ redis' = c.r
        /\ shadow' = Prune(IF cache_enabled /\ Applied(f1)
                           THEN [shadow EXCEPT !.attempts[email].n =
                                    IF @ > MaxAttempts THEN @ ELSE @ + 1]
                           ELSE shadow, redis')
        /\ last' = Done("forgot_password", email, c.allowed,
                        [issued |-> c.issued, status |-> c.status,
                         message |-> c.message], f1)
        /\ UNCHANGED <<contacts, cache_enabled, requests>>

ResetPassword ==
    \E token \in Tokens, new_password \in NewPasswords,
       f1 \in WriteOutcomes, f2 \in WriteOutcomes :
        LET c == reset_password(cache_enabled, redis, users, token, new_password,
                                f1, f2) IN
        /\ users' = c.us
        /\ redis' = c.r
        /\ shadow' = Prune(IF c.exc = "" /\ cache_enabled /\ Applied(f1)
                              /\ c.email \in ResetEmails
                           THEN [shadow EXCEPT !.attempts[c.email] =
                                    [n |-> 0, age |-> 0]]
                           ELSE shadow, redis')
        /\ last' = Done("reset_password", token, c.exc = "",
                        [exc |-> c.exc, email |-> c.email,
                         user_invalidations |-> Len(c.calls) - 1,
                         was_refused |->
                             /\ c.exc = ""
                             /\ ~check_reset_attempts(cache_enabled, redis, c.email,
                                                      MaxAttempts, "ok").ret],
                        f1)
        /\ UNCHANGED <<contacts, cache_enabled, requests>>

NextReset ==
    \/ ForgotPassword
    \/ ResetPassword
    \/ Tick

SpecReset == Init /\ [][NextReset]_vars

\* C25: the throttle fails open.  When the backend is disabled, or the round
\* trip of check_reset_attempts fails, the check allows the request whatever
\* the counter holds, and forgot_password for an existing active user stores
\* the new reset token with a fresh expiry and sends the reset email.
C25_RateLimitFailsOpen ==
    /\ (last.op = "forgot_password" /\ (~cache_enabled \/ last.f = "err")) => last.ok
    /\ \A email \in ResetEmails, reset_token \in Tokens,
          f1 \in WriteOutcomes, f2 \in WriteOutcomes :
           (~cache_enabled \/ f1 = "err") =>
               LET user == repo_get_user_by_email(users, email)
                   c == forgot_password(cache_enabled, redis, users, email,
                                        reset_token, f1, f2, "ok")
               IN  /\ check_reset_attempts(cache_enabled, redis, email,
                                           MaxAttempts, f1).ret
                   /\ c.allowed
                   /\ (user # NoneObj /\ user.is_active) =>
                          /\ c.issued
                          /\ c.us[user.id].reset_token = reset_token
                          /\ c.us[user.id].reset_expires = TokenTtl
                          /\ c.mail = <<email>>

\* the counter of the address was past the limit, the backend failed, and
\* the request was let through and a token issued
C25_Witness ==
    /\ cache_enabled
    /\ last.op = "forgot_password"
    /\ last.f = "err"
    /\ last.ok
    /\ last.val.issued
    /\ AttemptsKey(last.arg) \in DOMAIN redis
    /\ redis[AttemptsKey(last.arg)].val.num > MaxAttempts

\* C7: rate-limit boundary.  With max_attempts=3 and the backend answering,
\* a check_reset_attempts(email, 3) is allowed exactly when it is one of the
\* first 3 requests counted for that email in the current window, and the
\* 4th is refused; the window ends when its TTL has elapsed or when a
\* successful reset_password has called invalidate_reset_token(token, email),
\* and the next request is then allowed again.
C7_RateLimitBoundary ==
    /\ (cache_enabled /\ last.op = "forgot_password" /\ last.f = "ok") =>
           (last.ok <=> shadow.attempts[last.arg].n <= MaxAttempts)
    /\ cache_enabled =>
           \A email \in ResetEmails :
               check_reset_attempts(cache_enabled, redis, email, MaxAttempts, "ok").ret
                   <=> shadow.attempts[email].n < MaxAttempts
    /\ (cache_enabled /\ last.op = "reset_password" /\ last.ok /\ Applied(last.f)) =>
           /\ AttemptsKey(last.val.email) \notin DOMAIN redis
           /\ shadow.attempts[last.val.email].n = 0

\* the email whose requests were being refused is let through again after
\* a successful reset_password cleared its counter
C7_Witness ==
    /\ cache_enabled
    /\ last.op = "reset_password"
    /\ last.ok
    /\ last.f = "ok"
    /\ last.val.was_refused
    /\ check_reset_attempts(cache_enabled, redis, last.val.email, MaxAttempts, "ok").ret

\* C16: forgot_password answers every request with HTTP 200 and the same
\* generic message.  In every state the reset endpoints reach, and in the
\* states that differ from it only in an account being inactive or in the
\* attempt counters being absent, the response to a request is the same
\* whether the email is unknown, the user inactive or active, the attempt
\* limit exceeded, or the store raising.
C16_SameResponse ==
    /\ last.op = "forgot_password" =>
           (last.val.status = 200 /\ last.val.message = GenericMessage)
    /\ \A email \in ResetEmails, reset_token \in Tokens, f1 \in WriteOutcomes,
          f2 \in WriteOutcomes, db \in ReadOutcomes,
          us \in {users} \cup {[users EXCEPT ![u].is_active = FALSE] : u \in DOMAIN users},
          r \in {redis, EmptyRedis} :
           LET c == forgot_password(cache_enabled, r, us, email, reset_token,
                                    f1, f2, db)
               d == forgot_password(cache_enabled, redis, users, "a@x.com",
                                    reset_token, "ok", "ok", "ok")
           IN  /\ c.status = d.status
               /\ c.message = d.message
               /\ c.status = 200

\* a request refused by the attempt limit, and one for an unknown email let
\* through, were given the generic answer
C16_Witness ==
    /\ cache_enabled
    /\ last.op = "forgot_password"
    /\ ~last.ok
    /\ last.val.message = GenericMessage
    /\ shadow.attempts["nobody@x.com"].n > 0
    /\ users[1].reset_token # NoneStr

\* C17: a reset token is used once.  The handler runs from its query for
\* the token to clear_reset_token without giving up the event loop, so
\* requests interleave as whole steps.  A step changes a password only as a
\* successful reset_password carrying the token the user held, unexpired;
\* after it the token matches no user, and a reset_password with that token
\* (or any token no user holds) is rejected with 'Invalid or expired reset
\* token' and leaves the store as it is, until the token is issued again.
C17_TokenUsedOnce ==
    [][ /\ (last'.op = "reset_password" /\ last'.ok) =>
               /\ get_user_by_reset_token(users, last'.arg) # NoneObj
               /\ get_user_by_reset_token(users', last'.arg) = NoneObj
               /\ \A u \in DOMAIN users' : users'[u].reset_token # last'.arg
        /\ \A token \in Tokens, new_password \in NewPasswords,
              f1 \in WriteOutcomes, f2 \in WriteOutcomes :
               (\A u \in DOMAIN users' : users'[u].reset_token # token) =>
                   LET c == reset_password(cache_enabled, redis', users', token,
                                           new_password, f1, f2)
                   IN  /\ c.exc = "HTTP400"
                       /\ c.detail = "Invalid or expired reset token"
                       /\ c.us = users'
        /\ \A u \in DOMAIN users :
               users'[u].hashed_password # users[u].hashed_password =>
                   /\ last'.op = "reset_password"
                   /\ last'.ok
                   /\ users[u].reset_token = last'.arg
                   /\ users[u].reset_expires > 0
        /\ (last'.op = "reset_password" /\ ~last'.ok) => users' = users ]_vars

\* the token that had changed alice's password was presented again and
\* rejected
C17_Witness ==
    /\ last.op = "reset_password"
    /\ ~last.ok
    /\ last.val.exc = "HTTP400"
    /\ users[1].hashed_password = get_password_hash("long-enough")
    /\ users[1].reset_token = NoneStr
    /\ get_user_by_reset_token(users, last.arg) = NoneObj

-----------------------------------------------------------------------------
(* Profile changes: UserService.update_user and the avatar endpoints *)

\* the keyword arguments of an update: a new username, or an email that
\* another account already has
UserUpdates == {[username |-> "al"], [email |-> "b@x.com"]}

\* the round trips of one update_user: cache lookup, population after a miss,
\* invalidation of the old keys, caching of the updated row
UpdateOutcomes ==
    {<<"ok", "ok", "ok", "ok">>, <<"err", "ok", "ok", "ok">>,
     <<"ok", "err", "ok", "ok">>, <<"ok", "ok", "err", "ok">>,
     <<"ok", "ok", "ok", "err">>, <<"ok", "ok", "lost", "lost">>}

\* (mutant) the keys of the updated row are invalidated, not those of the
\* row as it was
UserService_update_user_invalidates_new(enabled, r, us, user_id, kwargs, f) ==
    LET old == UserService_get_user_by_id(enabled, r, us, user_id, f[1], f[2])
    IN  IF old.ret = NoneObj
        THEN [us |-> us, r |-> old.r, ret |-> NoneObj, exc |-> "", calls |-> <<>>, steps |-> <<>>,
              cached |-> FALSE]
        ELSE IF user_id \notin DOMAIN us
        THEN [us |-> us, r |-> old.r, ret |-> NoneObj, exc |-> "", calls |-> <<>>, steps |-> <<>>,
              cached |-> FALSE]
        ELSE IF UniqueViolation(us, user_id, kwargs)
        THEN [us |-> us, r |-> old.r, ret |-> NoneObj, exc |-> "IntegrityError",
              calls |-> <<>>, steps |-> <<>>, cached |-> FALSE]
        ELSE LET us1 == repo_update_user(us, user_id, kwargs)
                 updated_user == us1[user_id]
                 r1 == invalidate_user_cache(enabled, old.r, updated_user, f[3]).r
                 r2 == set_user_cache(enabled, r1, updated_user, f[4]).r
             IN  [us |-> us1, r |-> r2, ret |-> updated_user, exc |-> "",
                  calls |-> <<Call("invalidate_user_cache", old.ret.id),
                              Call("set_user_cache", user_id)>>,
                  steps |-> <<Call("commit", user_id),
                              Call("invalidate_user_cache", old.ret.id),
                              Call("set_user_cache", user_id)>>,
                  cached |-> enabled /\ Applied(f[4])]

UserService_update_user(enabled, r, us, user_id, kwargs, f) ==
    LET old == UserService_get_user_by_id(enabled, r, us, user_id, f[1], f[2])
    IN  IF old.ret = NoneObj
        THEN [us |-> us, r |-> old.r, ret |-> NoneObj, exc |-> "", calls |-> <<>>, steps |-> <<>>,
              cached |-> FALSE]
        ELSE IF user_id \notin DOMAIN us
        THEN [us |-> us, r |-> old.r, ret |-> NoneObj, exc |-> "", calls |-> <<>>, steps |-> <<>>,
              cached |-> FALSE]
        ELSE IF UniqueViolation(us, user_id, kwargs)
        THEN [us |-> us, r |-> old.r, ret |-> NoneObj, exc |-> "IntegrityError",
              calls |-> <<>>, steps |-> <<>>, cached |-> FALSE]
        ELSE LET us1 == repo_update_user(us, user_id, kwargs)
                 updated_user == us1[user_id]
                 r1 == invalidate_user_cache(enabled, old.r, old.ret, f[3]).r
                 r2 == set_user_cache(enabled, r1, updated_user, f[4]).r
             IN  [us |-> us1, r |-> r2, ret |-> updated_user, exc |-> "",
                  calls |-> <<Call("invalidate_user_cache", old.ret.id),
                              Call("set_user_cache", user_id)>>,
                  steps |-> <<Call("commit", user_id),
                              Call("invalidate_user_cache", old.ret.id),
                              Call("set_user_cache", user_id)>>,
                  cached |-> enabled /\ Applied(f[4])]

\* POST /avatar: the image goes to Cloudinary (cloud is the outcome of the
\* upload), then UserRepository.update_avatar
upload_avatar(us, current_user, avatar_url, cloud) ==
    IF cloud = "err"
    THEN [us |-> us, ret |-> NoneObj, exc |-> "HTTP500", calls |-> <<>>]
    ELSE IF current_user.id \notin DOMAIN us
    THEN [us |-> us, ret |-> NoneObj, exc |-> "HTTP404", calls |-> <<>>]
    ELSE LET row == [us[current_user.id] EXCEPT !.avatar_url = avatar_url]
         IN  [us |-> [us EXCEPT ![current_user.id] = row], ret |-> row, exc |-> "",
              calls |-> <<>>]

\* DELETE /avatar
delete_avatar(us, current_user, cloud) ==
    IF cloud = "err" /\ current_user.avatar_url # NoneStr
    THEN [us |-> us, ret |-> NoneObj, exc |-> "HTTP500", calls |-> <<>>]
    ELSE IF current_user.id \notin DOMAIN us
    THEN [us |-> us, ret |-> NoneObj, exc |-> "HTTP404", calls |-> <<>>]
    ELSE LET row == [us[current_user.id] EXCEPT !.avatar_url = NoneStr]
         IN  [us |-> [us EXCEPT ![current_user.id] = row], ret |-> row, exc |-> "",
              calls |-> <<>>]

\* get_current_active_user: the row of the signed-in user, alice
CurrentUsers(us) == {us[u] : u \in {q \in DOMAIN us : q = 1 /\ us[q].is_active}}

SvcUpdateUser ==
    \E user_id \in {1, 3}, kwargs \in UserUpdates, f \in UpdateOutcomes :
        LET c == UserService_update_user(cache_enabled, redis, users, user_id,
                                         kwargs, f) IN
        /\ users' = c.us
        /\ redis' = c.r
        /\ shadow' = Prune(IF c.cached THEN [shadow EXCEPT !.user[user_id] = c.ret]
                           ELSE shadow, redis')
        /\ last' = Done("update_user", user_id, c.ret # NoneObj,
                        [exc |-> c.exc,
                         old_hit |->
                             UserService_get_user_by_id(cache_enabled, redis, users,
                                                        user_id, f[1], f[2]).hit,
                         user_invalidations |->
                             CountCalls(c.calls, "invalidate_user_cache", user_id)],
                        IF f[3] = "ok" /\ f[4] = "ok" THEN "ok" ELSE "err")
        /\ UNCHANGED <<contacts, cache_enabled, requests>>

UploadAvatar ==
    \E current_user \in CurrentUsers(users), avatar_url \in Avatars \ {NoneStr},
       cloud \in {"ok", "err"} :
        LET c == upload_avatar(users, current_user, avatar_url, cloud) IN
        /\ users' = c.us
        /\ last' = Done("upload_avatar", current_user.id, c.exc = "",
                        [exc |-> c.exc,
                         user_invalidations |->
                             CountCalls(c.calls, "invalidate_user_cache",
                                        current_user.id)],
                        "ok")
        /\ UNCHANGED <<contacts, redis, cache_enabled, shadow, requests>>

DeleteAvatar ==
    \E current_user \in CurrentUsers(users), cloud \in {"ok", "err"} :
        LET c == delete_avatar(users, current_user, cloud) IN
        /\ users' = c.us
        /\ last' = Done("delete_avatar", current_user.id, c.exc = "",
                        [exc |-> c.exc,
                         user_invalidations |->
                             CountCalls(c.calls, "invalidate_user_cache",
                                        current_user.id)],
                        "ok")
        /\ UNCHANGED <<contacts, redis, cache_enabled, shadow, requests>>

NextProfile ==
    \/ SvcGetUserById
    \/ SvcGetUserByUsername
    \/ SvcGetUserByEmail
    \/ SvcUpdateUser
    \/ UploadAvatar
    \/ DeleteAvatar
    \/ Tick

SpecProfile == Init /\ [][NextProfile]_vars

\* C9: after every completed mutation of a user's username, email,
\* password, activation status, avatar or role, invalidate_user_cache has
\* been called for that user and, the backend answering, the snapshot under
\* the user's id key is not the one from before the mutation.
C9_MutationInvalidatesUser ==
    (/\ last.op \in {"update_user", "upload_avatar", "delete_avatar",
                     "update_user_status", "update_user_role", "reset_password"}
     /\ last.ok) =>
        /\ last.val.user_invalidations >= 1
        /\ (last.f = "ok" /\ ById(last.arg) # NoneObj) =>
               ById(last.arg) = Snapshot(users[last.arg])

-----------------------------------------------------------------------------
(* Account deletion: UserRepository.delete_user, UserService.delete_user   *)
(* and AdminService.delete_user                                            *)

\* User.contacts has no delete cascade: the session sets user_id of the
\* user's contacts to NULL, which the column's NOT NULL refuses at commit
repo_delete_user(us, cs, user_id) ==
    IF user_id \notin DOMAIN us THEN [us |-> us, ret |-> FALSE, exc |-> ""]
    ELSE IF \E c \in DOMAIN cs : cs[c].user_id = user_id
    THEN [us |-> us, ret |-> FALSE, exc |-> "IntegrityError"]
    ELSE [us |-> [u \in DOMAIN us \ {user_id} |-> us[u]], ret |-> TRUE, exc |-> ""]

\* f1, f2: the round trips of the read through the cache; f: the three round
\* trips of clear_user_all_cache
UserService_delete_user(enabled, r, us, cs, user_id, f1, f2, f) ==
    LET user    == UserService_get_user_by_id(enabled, r, us, user_id, f1, f2)
        deleted == repo_delete_user(us, cs, user_id)
    IN  IF user.ret = NoneObj
        THEN [us |-> us, r |-> user.r, ret |-> FALSE, exc |-> "", calls |-> <<>>, steps |-> <<>>]
        ELSE IF ~deleted.ret
        THEN [us |-> us, r |-> user.r, ret |-> FALSE, exc |-> deleted.exc,
              calls |-> <<>>, steps |-> <<>>]
        ELSE [us |-> deleted.us,
              r |-> clear_user_all_cache(enabled, user.r, user_id, f[1], f[2], f[3]).r,
              ret |-> TRUE, exc |-> "",
              calls |-> <<Call("clear_user_all_cache", user_id)>>,
              steps |-> <<Call("commit", user_id),
                          Call("clear_user_all_cache", user_id)>>]

\* (mutant) another admin's account can be deleted
AdminService_delete_user_deletes_admins(enabled, r, us, cs, user_id, admin_user, f) ==
    LET user_to_delete == repo_get_user_by_id(us, user_id)
        deleted        == repo_delete_user(us, cs, user_id)
    IN  IF user_id = admin_user.id
        THEN [us |-> us, r |-> r, ret |-> FALSE, exc |-> "ValueError", calls |-> <<>>]
        ELSE IF user_to_delete = NoneObj
        THEN [us |-> us, r |-> r, ret |-> FALSE, exc |-> "", calls |-> <<>>]
        ELSE IF ~deleted.ret
        THEN [us |-> us, r |-> r, ret |-> FALSE, exc |-> deleted.exc, calls |-> <<>>]
        ELSE [us |-> deleted.us,
              r |-> clear_user_all_cache(enabled, r, user_id, f[1], f[2], f[3]).r,
              ret |-> TRUE, exc |-> "",
              calls |-> <<Call("clear_user_all_cache", user_id)>>]

AdminService_delete_user(enabled, r, us, cs, user_id, admin_user, f) ==
    LET user_to_delete == repo_get_user_by_id(us, user_id)
        deleted        == repo_delete_user(us, cs, user_id)
    IN  IF user_id = admin_user.id
        THEN [us |-> us, r |-> r, ret |-> FALSE, exc |-> "ValueError", calls |-> <<>>, steps |-> <<>>]
        ELSE IF user_to_delete = NoneObj
        THEN [us |-> us, r |-> r, ret |-> FALSE, exc |-> "", calls |-> <<>>, steps |-> <<>>]
        ELSE IF user_to_delete.role = "admin"
        THEN [us |-> us, r |-> r, ret |-> FALSE, exc |-> "ValueError", calls |-> <<>>, steps |-> <<>>]
        ELSE IF ~deleted.ret
        THEN [us |-> us, r |-> r, ret |-> FALSE, exc |-> deleted.exc, calls |-> <<>>, steps |-> <<>>]
        ELSE [us |-> deleted.us,
              r |-> clear_user_all_cache(enabled, r, user_id, f[1], f[2], f[3]).r,
              ret |-> TRUE, exc |-> "",
              calls |-> <<Call("clear_user_all_cache", user_id)>>,
              steps |-> <<Call("commit", user_id),
                          Call("clear_user_all_cache", user_id)>>]

\* the round trips of one clear_user_all_cache: all answered, or one failing
ClearOutcomes ==
    {<<"ok", "ok", "ok">>, <<"err", "ok", "ok">>, <<"ok", "err", "ok">>,
     <<"ok", "ok", "err">>}

SvcDeleteUser ==
    \E user_id \in UserIds, f1 \in ReadOutcomes, f \in ClearOutcomes :
        LET c == UserService_delete_user(cache_enabled, redis, users, contacts,
                                         user_id, f1, "ok", f) IN
        /\ users' = c.us
        /\ redis' = c.r
        /\ shadow' = Prune(shadow, redis')
        /\ last' = Done("UserService.delete_user", user_id, c.ret,
                        [exc |-> c.exc, admin_id |-> 0, cleared |-> Len(c.calls)],
                        IF f = <<"ok", "ok", "ok">> THEN "ok" ELSE "err")
        /\ UNCHANGED <<contacts, cache_enabled, requests>>

AdminDeleteUser ==
    \E admin_user \in get_current_admin(users), user_id \in TargetIds,
       f \in ClearOutcomes :
        LET c == AdminService_delete_user(cache_enabled, redis, users, contacts,
                                          user_id, admin_user, f) IN
        /\ users' = c.us
        /\ redis' = c.r
        /\ shadow' = Prune(shadow, redis')
        /\ last' = Done("delete_user", user_id, c.ret,
                        [exc |-> c.exc, admin_id |-> admin_user.id,
                         cleared |-> Len(c.calls)],
                        IF f = <<"ok", "ok", "ok">> THEN "ok" ELSE "err")
        /\ UNCHANGED <<contacts, cache_enabled, requests>>

NextDelete ==
    \/ SvcGetUserById
    \/ SvcUpdateUser
    \/ SvcDeleteUser
    \/ AdminDeleteUser
    \/ CallClearUserAllCache

SpecDelete == Init /\ [][NextDelete]_vars

-----------------------------------------------------------------------------
(* Requests in flight.  The dependencies of an endpoint (get_db,
   get_current_user and the ones built on it) are plain functions, which the
   framework runs on worker threads, while the body of an endpoint is a
   coroutine that never yields: the repositories wrap blocking calls.  A
   request is therefore two steps: a dependency loads the user object, and
   later the next dependency or the body runs with that object, and other
   requests take their steps in between.  The backend answers every call
   here, so whatever goes wrong is due to the interleaving alone. *)

\* requests that have loaded their user and not yet run
MaxRequests == 2

\* get_current_user and get_current_active_user: the row of the token's user
\* as it is in the store now
GetCurrentActiveUser ==
    \E u \in DOMAIN users :
        /\ users[u].is_active
        /\ Cardinality(requests) < MaxRequests
        /\ users[u] \notin requests
        /\ requests' = requests \cup {users[u]}
        /\ last' = Done("get_current_active_user", u, TRUE, NoneObj, "ok")
        /\ UNCHANGED <<users, contacts, redis, cache_enabled, shadow>>

\* role_dependency of require_role("admin"), given the object loaded earlier
RequestRequireRole ==
    \E current_user \in requests :
        LET c == role_dependency(cache_enabled, redis, current_user, "admin",
                                 "ok", "ok") IN
        /\ redis' = c.r
        /\ shadow' = Prune(shadow, redis')
        /\ last' = Done("role_dependency", current_user.id, c.allowed,
                        [role |-> current_user.role], "ok")
        /\ requests' = requests \ {current_user}
        /\ UNCHANGED <<users, contacts, cache_enabled>>

\* PUT /users/{user_id}/role: get_current_admin on the loaded object, then
\* the body
RequestUpdateUserRole ==
    \E admin_user \in requests, user_id \in DOMAIN users,
       new_role \in {"user", "admin"} :
        /\ get_current_admin(admin_user.id :> admin_user) # {}
        /\ LET c == AdminService_update_user_role(cache_enabled, redis, users,
                                                  user_id, new_role, admin_user,
                                                  "ok", "ok", "ok") IN
           /\ users' = c.us
           /\ redis' = c.r
           /\ shadow' = Prune(shadow, redis')
           /\ last' = Done("PUT role", user_id, c.ret # NoneObj,
                           [exc |-> c.exc, admin_id |-> admin_user.id], "ok")
        /\ requests' = requests \ {admin_user}
        /\ UNCHANGED <<contacts, cache_enabled>>

\* PUT /users/{user_id}/status
RequestUpdateUserStatus ==
    \E admin_user \in requests, user_id \in DOMAIN users, is_active \in BOOLEAN :
        /\ get_current_admin(admin_user.id :> admin_user) # {}
        /\ LET c == AdminService_update_user_status(cache_enabled, redis, users,
                                                    user_id, is_active, admin_user,
                                                    "ok", "ok") IN
           /\ users' = c.us
           /\ redis' = c.r
           /\ shadow' = Prune(shadow, redis')
           /\ last' = Done("PUT status", user_id, c.ret # NoneObj,
                           [exc |-> c.exc, admin_id |-> admin_user.id], "ok")
        /\ requests' = requests \ {admin_user}
        /\ UNCHANGED <<contacts, cache_enabled>>

\* DELETE /users/{user_id}
RequestDeleteUser ==
    \E admin_user \in requests, user_id \in DOMAIN users :
        /\ get_current_admin(admin_user.id :> admin_user) # {}
        /\ LET c == AdminService_delete_user(cache_enabled, redis, users, contacts,
                                             user_id, admin_user,
                                             <<"ok", "ok", "ok">>) IN
           /\ users' = c.us
           /\ redis' = c.r
           /\ shadow' = Prune(shadow, redis')
           /\ last' = Done("DELETE user", user_id, c.ret,
                           [exc |-> c.exc, admin_id |-> admin_user.id], "ok")
        /\ requests' = requests \ {admin_user}
        /\ UNCHANGED <<contacts, cache_enabled>>

NextRace ==
    \/ GetCurrentActiveUser
    \/ RequestRequireRole
    \/ RequestUpdateUserRole
    \/ RequestUpdateUserStatus
    \/ RequestDeleteUser

SpecRace == Init /\ [][NextRace]_vars

\* C26: no privilege after demotion.  Once update_user_role has demoted a
\* user from admin, a require_role("admin") check that starts afterwards
\* (it loads the user as the store has it now) does not grant, whatever checks
\* for that user were in flight during the demotion.
C26_NoPrivilegeAfterDemotion ==
    \A u \in DOMAIN users :
        (users[u].is_active /\ users[u].role # "admin") =>
            ~role_dependency(cache_enabled, redis, users[u], "admin",
                             "ok", "ok").allowed

\* C27: at least one active admin always remains in the store, under every
\* interleaving of role, status and delete requests that passed
\* get_current_admin.
C27_ActiveAdminRemains ==
    \E u \in DOMAIN users : users[u].is_active /\ users[u].role = "admin"

-----------------------------------------------------------------------------
(* Readers and one mutation.  GET /contacts is a request in flight like    *)
(* the ones above: its user is loaded first, and its body, the whole       *)
(* read-through, runs later and in one piece, before or after the body of  *)
(* a mutation but never inside it.                                         *)

\* GET /contacts, the body: ContactService.get_contacts for the loaded user
RequestGetContacts ==
    \E current_user \in requests, skip \in Skips, limit \in Limits,
       f1 \in ReadOutcomes, f2 \in WriteOutcomes :
        LET u == current_user.id
            c == ContactService_get_contacts(cache_enabled, redis, contacts, u,
                                             skip, limit, f1, f2) IN
        /\ redis' = c.r
        /\ shadow' = Prune(IF c.populated
                           THEN ListSet(shadow, u,
                                        get_contacts_by_user(contacts, u, skip, limit))
                           ELSE shadow, redis')
        /\ last' = Done("GET contacts", u, c.exc = "", [hit |-> c.hit], "ok")
        /\ requests' = requests \ {current_user}
        /\ UNCHANGED <<users, contacts, cache_enabled>>

NextStale ==
    \/ GetCurrentActiveUser
    \/ RequestGetContacts
    \/ SvcGetUserById
    \/ SvcUpdateContact
    \/ SvcDeleteContact

SpecStale == Init /\ [][NextStale]_vars

C22_WriteThenInvalidate ==
    LET Invalidations ==
            {"invalidate_user_cache", "invalidate_user_role_cache",
             "invalidate_contacts_cache", "clear_user_all_cache",
             "invalidate_reset_token"}
        Committed(c) == \E i \in DOMAIN c.steps : c.steps[i].m = "commit"
        Ordered(c, failed) ==
            /\ \A i \in DOMAIN c.steps :
                   c.steps[i].m \in Invalidations =>
                       \E j \in 1..(i - 1) : c.steps[j].m = "commit"
            /\ failed => /\ ~Committed(c)
                         /\ \A i \in DOMAIN c.steps : c.steps[i].m \notin Invalidations
                         /\ DOMAIN redis \subseteq DOMAIN c.r
            /\ ~failed => Committed(c)
    IN  /\ \A user_id \in {1, 2, 3} :
            /\ \A kwargs \in UserUpdates, f \in UpdateOutcomes :
                   LET c == UserService_update_user(cache_enabled, redis, users,
                                                    user_id, kwargs, f)
                   IN  /\ Ordered(c, c.exc # "" \/ c.ret = NoneObj)
                       /\ (c.exc # "" \/ c.ret = NoneObj) => c.us = users
            /\ \A f1 \in ReadOutcomes, f \in ClearOutcomes :
                   LET c == UserService_delete_user(cache_enabled, redis, users,
                                                    contacts, user_id, f1, "ok", f)
                   IN  /\ Ordered(c, c.exc # "" \/ ~c.ret)
                       /\ (c.exc # "" \/ ~c.ret) => c.us = users
            /\ \A admin_user \in get_current_admin(users) :
                   /\ \A new_role \in Roles, f \in AdminOutcomes :
                          LET c == AdminService_update_user_role(cache_enabled, redis,
                                       users, user_id, new_role, admin_user,
                                       f[1], f[2], f[3])
                          IN  /\ Ordered(c, c.exc # "" \/ c.ret = NoneObj)
                              /\ (c.exc # "" \/ c.ret = NoneObj) => c.us = users
                   /\ \A is_active \in BOOLEAN, f \in AdminOutcomes :
                          LET c == AdminService_update_user_status(cache_enabled, redis,
                                       users, user_id, is_active, admin_user, f[1], f[2])
                          IN  /\ Ordered(c, c.exc # "" \/ c.ret = NoneObj)
                              /\ (c.exc # "" \/ c.ret = NoneObj) => c.us = users
                   /\ \A f \in ClearOutcomes :
                          LET c == AdminService_delete_user(cache_enabled, redis, users,
                                       contacts, user_id, admin_user, f)
                          IN  /\ Ordered(c, c.exc # "" \/ ~c.ret)
                              /\ (c.exc # "" \/ ~c.ret) => c.us = users
        /\ \A u \in UserIds, f \in WriteOutcomes :
            /\ \A email \in ContactEmails \cup {"c3@x.com"} :
                   LET c == ContactService_create_contact(cache_enabled, redis,
                                                          contacts, email, u, f)
                   IN  Ordered(c, ~c.wrote) /\ (~c.wrote => c.cs = contacts)
            /\ \A cid \in ContactIds :
                   /\ \A upd \in Updates :
                          LET c == ContactService_update_contact(cache_enabled, redis,
                                                                 contacts, cid, upd, u, f)
                          IN  Ordered(c, ~c.wrote) /\ (~c.wrote => c.cs = contacts)
                   /\ LET c == ContactService_delete_contact(cache_enabled, redis,
                                                             contacts, cid, u, f)
                      IN  Ordered(c, ~c.wrote) /\ (~c.wrote => c.cs = contacts)
        /\ \A token \in Tokens, new_password \in NewPasswords,
              f1 \in WriteOutcomes, f2 \in WriteOutcomes :
               LET c == reset_password(cache_enabled, redis, users, token,
                                       new_password, f1, f2)
               IN  /\ Ordered(c, c.exc # "")
                   /\ c.exc # "" => c.us = users

\* a password was reset: the two commits came first, then the invalidations
C22_Witness ==
    /\ last.op = "reset_password"
    /\ last.ok
    /\ last.val.user_invalidations = 1
    /\ cache_enabled

\* C11 (as claimed): after a clear_user_all_cache(uid) whose round trips
\* were all answered, the lookup by id misses, the list of uid's contacts
\* misses, no lookup by username or by email returns a snapshot with id uid,
\* and no key holds such a snapshot, whichever keys were there before.
C11_ClearAllLeavesNothing ==
    (/\ cache_enabled
     /\ last.op = "clear_user_all_cache"
     /\ last.val.healthy) =>
        /\ get_user_by_id(cache_enabled, redis, last.arg, "ok").ret = NoneObj
        /\ get_contacts_cache(cache_enabled, redis, last.arg, "ok").ret = NoneObj
        /\ \A n \in Usernames :
               LET c == get_user_by_username(cache_enabled, redis, n, "ok").ret
               IN  c # NoneObj => c.id # last.arg
        /\ \A e \in Emails :
               LET c == get_user_by_email(cache_enabled, redis, e, "ok").ret
               IN  c # NoneObj => c.id # last.arg
        /\ \A k \in DOMAIN redis :
               "obj" \in DOMAIN redis[k].val => redis[k].val.obj.id.v # last.arg

-----------------------------------------------------------------------------
(* The admin API on its own: role changes, activation, deletion *)

NextGuard ==
    \/ AdminUpdateUserRole
    \/ AdminUpdateUserStatus
    \/ AdminDeleteUser
    \/ Tick

SpecGuard == Init /\ [][NextGuard]_vars

\* C15: a failing audit write never fails the admin action.  In every state
\* the admin API reaches, with the target's snapshot cached or not, an
\* update_user_role or update_user_status of an existing user whose
\* cache_admin_action fails (backend error, backend disabled or record
\* refused) returns the updated user without raising, writes the store as
\* the repository does, writes no audit record, and still makes the cache
\* invalidations that follow the audit write.
C15_AuditFailureNeverFailsAction ==
    \A admin_user \in get_current_admin(users), user_id \in DOMAIN users,
       f2 \in WriteOutcomes, f3 \in WriteOutcomes :
        \A r0 \in {redis, set_user_cache(cache_enabled, redis, users[user_id], "ok").r} :
            /\ \A new_role \in Roles :
                   LET c == AdminService_update_user_role(cache_enabled, r0, users,
                                user_id, new_role, admin_user, "err", f2, f3)
                       w == repo_update_user_role(users, user_id, new_role)
                   IN  (user_id # admin_user.id \/ new_role = "admin") =>
                           /\ c.exc = ""
                           /\ c.ret = w.ret
                           /\ c.us = w.us
                           /\ AuditKeys(c.r) = AuditKeys(r0)
                           /\ CountCalls(c.calls, "invalidate_user_cache", user_id) = 1
                           /\ CountCalls(c.calls, "invalidate_user_role_cache", user_id) = 1
                           /\ (cache_enabled /\ Applied(f2)) =>
                                  UserKeys(w.ret) \cap DOMAIN c.r = {}
            /\ \A is_active \in BOOLEAN :
                   LET c == AdminService_update_user_status(cache_enabled, r0, users,
                                user_id, is_active, admin_user, "err", f2)
                       w == repo_update_user_status(users, user_id, is_active)
                   IN  (user_id # admin_user.id \/ is_active) =>
                           /\ c.exc = ""
                           /\ c.ret = w.ret
                           /\ c.us = w.us
                           /\ AuditKeys(c.r) = AuditKeys(r0)
                           /\ CountCalls(c.calls, "invalidate_user_cache", user_id) = 1
                           /\ (cache_enabled /\ Applied(f2)) =>
                                  UserKeys(w.ret) \cap DOMAIN c.r = {}

\* bob was deactivated and the updated row returned while the backend was
\* disabled, so that no audit record could be written
C15_Witness ==
    /\ ~cache_enabled
    /\ last.op = "update_user_status"
    /\ last.ok
    /\ last.val.exc = ""
    /\ last.val.user_invalidations = 1
    /\ ~users[last.arg].is_active

\* C19: admin self-protection.  In every state the admin API reaches, an
\* admin's update_user_role of themselves to a role other than admin, an
\* admin's update_user_status of themselves to inactive, an admin's
\* delete_user of themselves and a delete_user of any user whose role is
\* admin raise ValueError and leave the store and the key space as they
\* were, with no audit write and no cache call made.
C19_AdminSelfProtection ==
    \A admin_user \in get_current_admin(users), f \in AdminOutcomes :
        LET Refused(c) == /\ c.exc = "ValueError"
                          /\ c.us = users
                          /\ c.r = redis
                          /\ c.calls = <<>>
        IN  /\ \A new_role \in Roles \ {"admin"} :
                   Refused(AdminService_update_user_role(cache_enabled, redis, users,
                               admin_user.id, new_role, admin_user, f[1], f[2], f[3]))
            /\ Refused(AdminService_update_user_status(cache_enabled, redis, users,
                           admin_user.id, FALSE, admin_user, f[1], f[2]))
            /\ \A user_id \in DOMAIN users :
                   (user_id = admin_user.id \/ users[user_id].role = "admin") =>
                       Refused(AdminService_delete_user(cache_enabled, redis, users,
                                   contacts, user_id, admin_user, f))

\* an admin asked for the deletion of another admin and was refused
C19_Witness ==
    /\ last.op = "delete_user"
    /\ last.val.exc = "ValueError"
    /\ last.val.admin_id # last.arg
    /\ last.arg \in DOMAIN users
    /\ users[last.arg].role = "admin"
    /\ DOMAIN redis # {}

-----------------------------------------------------------------------------
(* The cache layer switched off *)

InitDisabled ==
    /\ users = InitUsers
    /\ contacts = InitContacts
    /\ redis = EmptyRedis
    /\ cache_enabled = FALSE
    /\ shadow = InitShadow
    /\ last = Done("init", 0, TRUE, NoneObj, "ok")
    /\ requests = {}

NextDisabled ==
    \/ SvcGetUserById
    \/ SvcGetUserByUsername
    \/ SvcGetUserByEmail
    \/ SvcGetContacts
    \/ SvcUpdateUser
    \/ UploadAvatar
    \/ DeleteAvatar
    \/ SvcCreateContact
    \/ SvcUpdateContact
    \/ SvcDeleteContact

SpecDisabled == InitDisabled /\ [][NextDisabled]_vars

\* C6: cache invisibility.  With the backend disabled, after any sequence
\* of reads and mutations UserService.get_user_by_id, get_user_by_username
\* and get_user_by_email and ContactService.get_contacts return exactly what
\* the repository returns for the same arguments, whatever the backend
\* would have answered, and nothing is ever written to the key space.
C6_CacheInvisibility ==
    ~cache_enabled =>
        /\ redis = EmptyRedis
        /\ \A f1 \in ReadOutcomes, f2 \in WriteOutcomes :
              /\ \A user_id \in UserIds \cup {3} :
                     UserService_get_user_by_id(cache_enabled, redis, users,
                                                user_id, f1, f2).ret
                         = repo_get_user_by_id(users, user_id)
              /\ \A username \in Usernames :
                     UserService_get_user_by_username(cache_enabled, redis, users,
                                                      username, f1, f2).ret
                         = repo_get_user_by_username(users, username)
              /\ \A email \in Emails :
                     UserService_get_user_by_email(cache_enabled, redis, users,
                                                   email, f1, f2).ret
                         = repo_get_user_by_email(users, email)
              /\ \A user_id \in UserIds, skip \in Skips, limit \in Limits :
                     LET c == ContactService_get_contacts(cache_enabled, redis,
                                  contacts, user_id, skip, limit, f1, f2)
                     IN  /\ c.exc = ""
                         /\ c.ret = get_contacts_by_user(contacts, user_id, skip, limit)

\* a read of the renamed user, after a contact was deleted, answered by the
\* store
C6_Witness ==
    /\ ~cache_enabled
    /\ last.op = "UserService.get_user_by_username"
    /\ last.ok
    /\ ~last.val.hit
    /\ users[1].username = "al"
    /\ users[1].avatar_url # NoneStr
    /\ Len(ContactsOf(contacts, 1)) = 1

\* C5: fail-open degradation.  With the backend disabled every operation
\* of the cache service returns miss or False and leaves the key space as it
\* was.
C5_FailOpenDegradation ==
    ~cache_enabled =>
        /\ redis = EmptyRedis
        /\ last.op \in {"set_user_cache", "get_user_by_id", "get_user_by_username",
                        "get_user_by_email", "invalidate_user_cache",
                        "clear_user_all_cache"} => ~last.ok

\* C13 (as claimed): the backend-reachability state machine.  A cache
\* operation whose round trip fails with a connection or timeout error leaves
\* the service disabled; a disabled service is never enabled again; and a
\* disabled service answers miss or False without touching the key space.
C13_ErrorDisablesBackend ==
    [][ /\ (/\ cache_enabled
            /\ last'.op \in {"set_user_cache", "get_user_by_id",
                             "get_user_by_username", "get_user_by_email",
                             "invalidate_user_cache"}
            /\ last'.f = "err") => ~cache_enabled'
        /\ ~cache_enabled => (~cache_enabled' /\ redis' = redis) ]_vars

\* C14 (as claimed): per-call failures.  With the backend enabled, a cache
\* operation whose round trips all fail returns miss or False, and the read
\* of a user or of a contacts list whose cache lookup failed is answered with
\* the store's data without raising.
C14_FailingCallReturnsMiss ==
    cache_enabled =>
        /\ (/\ last.op \in {"set_user_cache", "get_user_by_id",
                            "get_user_by_username", "get_user_by_email",
                            "invalidate_user_cache"}
            /\ last.f = "err") => ~last.ok
        /\ (last.op = "clear_user_all_cache" /\ last.val.failed) => ~last.ok
        /\ \A f2 \in WriteOutcomes :
              /\ \A user_id \in UserIds :
                     UserService_get_user_by_id(cache_enabled, redis, users,
                                                user_id, "err", f2).ret
                         = repo_get_user_by_id(users, user_id)
              /\ \A user_id \in UserIds, skip \in Skips, limit \in Limits :
                     LET c == ContactService_get_contacts(cache_enabled, redis,
                                  contacts, user_id, skip, limit, "err", f2)
                     IN  /\ c.exc = ""
                         /\ c.ret = get_contacts_by_user(contacts, user_id, skip, limit)

====
